---- MODULE Spec2Model ----
(***************************************************************************)
(* The conversation and session synchronization engine of the chat client: *)
(* the zustand chat store (stores/chatStore.ts), the useChat hook          *)
(* (hooks/useChat.ts, the Auth0 version) and the fallback title of         *)
(* api/smart-title-service.ts.                                             *)
(*                                                                         *)
(* One action is one synchronous run of JavaScript: a handler up to its    *)
(* first await, or the continuation of an await up to the next one.  The   *)
(* requests that are awaited sit in the bag inflight, each with the values *)
(* its closure captured when the handler was invoked.  The hook re-renders *)
(* synchronously after every store update (useSyncExternalStore), so a     *)
(* handler invoked by the user closes over the store as it is then.  The   *)
(* handlers and the chat-change effect are those of one mounted instance   *)
(* of the hook; the initialization effect, which is guarded by the         *)
(* module-level variables, runs once in each of HookInstances instances.   *)
(*                                                                         *)
(* The backend is not part of the repository.  It is modelled as the       *)
(* environment: it owns srvSessions and srvHistory, answers history        *)
(* requests with contiguous pages (oldest first inside a page), answers    *)
(* session-list requests with pages whose order it does not promise (the   *)
(* client sorts them itself), and any request may be rejected.             *)
(***************************************************************************)
EXTENDS Naturals, Integers, Sequences, FiniteSets, Bags, TLC

(***************************************************************************)
(* Bounds.  PAGE_SIZE and SESSIONS_PAGE_SIZE are 20 in the source; the     *)
(* code only compares lengths and counts with them, so they are scaled.    *)
(***************************************************************************)
PAGE_SIZE == 2
SESSIONS_PAGE_SIZE == 2
\* chat ids are 1..MaxChats
MaxChats == 3
\* the number of messages in the stored history of chat 1
HistLen == 3
\* how many user intents (send, switch, scroll, new chat, delete, rename, log in,
\* log out) one behaviour holds
MaxIntents == 3
\* how many bootstraps one behaviour starts
MaxInits == 3
MaxUsers == 2
\* how many times the initialization effect runs for one change of its
\* dependencies (one run per mounted useChat instance)
HookInstances == 3

NoChat == 0
NoCursor == 0
NoUser == 0
DefaultTitle == "New Chat"

ChatIds == 1..MaxChats

\* a timestamp written by the server at time t, and one written by the client:
\* the two never compare equal (the formats differ), and order by time
ServerTs(t) == 2 * t
ClientTs(t) == 2 * t + 1

VARIABLES
    \* ---- chat store (stores/chatStore.ts)
    messages, currentChatId, chatSessions,
    isLoading, isPaginating, hasMore,
    hasMoreSessions, sessionsCursor, isLoadingSessions,
    messagesCursor, messagesLoadedFromHistory, messagesSentInSession,
    chatsTitled,
    \* ---- auth store, Auth0 and the module-level initialization guard
    isAuthenticated, user, hasInitialized,
    globalInitPromise,      \* 0 (null) or the number of the bootstrap it belongs to
    globalInitInProgress, lastInitUserId,
    effDirty,               \* the initialization effect's dependencies changed
    initN,                  \* bootstraps started so far
    \* ---- environment
    srvSessions,   \* the user's sessions on the server, a set of records
    srvHistory,    \* chat id -> the stored messages, oldest first
    srvNextId,     \* the id the server gives the next created session
    titleLog,      \* chat id -> <<title generations started, auto titles persisted>>
    now,           \* the clock
    \* ---- control
    inflight,      \* bag of awaited requests with their closures
    used,          \* how often each intent was invoked
    cursorFrom,    \* the session whose history response stored messagesCursor
    \* ---- api/smart-title-service.ts
    fallbackIn,    \* the message generateFallbackTitle was called with
    fallbackOut    \* the title it returned, <<>> before the call

\* the user intents invoked so far
Intents == used.send + used.switch + used.older + used.more + used.newchat +
           used.delete + used.rename + used.login + used.logout

storeMsgVars == <<messages, isLoading, isPaginating, hasMore, messagesCursor, cursorFrom,
                  messagesLoadedFromHistory, messagesSentInSession>>
storeSessVars == <<chatSessions, hasMoreSessions, sessionsCursor, isLoadingSessions>>
authVars == <<isAuthenticated, user, hasInitialized, globalInitPromise,
              globalInitInProgress, lastInitUserId, effDirty, initN>>
srvVars == <<srvSessions, srvHistory, srvNextId, titleLog>>
fallbackVars == <<fallbackIn, fallbackOut>>
vars == <<messages, currentChatId, chatSessions, isLoading, isPaginating, hasMore,
          hasMoreSessions, sessionsCursor, isLoadingSessions, messagesCursor, cursorFrom,
          messagesLoadedFromHistory, messagesSentInSession, chatsTitled,
          isAuthenticated, user, hasInitialized, globalInitPromise,
          globalInitInProgress, lastInitUserId, effDirty, initN,
          srvSessions, srvHistory, srvNextId, titleLog, now, inflight, used,
          fallbackIn, fallbackOut>>

(***************************************************************************)
(* Helpers on sequences                                                    *)
(***************************************************************************)
Range(s) == {s[i] : i \in 1..Len(s)}

Min(a, b) == IF a < b THEN a ELSE b
Max(a, b) == IF a > b THEN a ELSE b

(***************************************************************************)
(* The chat store's pure updates (stores/chatStore.ts)                     *)
(***************************************************************************)
\* addMessage: [...state.messages, message]
AddMessage(msgs, m) == Append(msgs, m)

\* updateLastMessage: the LAST element gets content, status and a new timestamp
UpdateLastMessage(msgs, content, status, ts) ==
    IF Len(msgs) = 0 THEN msgs
    ELSE [msgs EXCEPT ![Len(msgs)] =
              [@ EXCEPT !.content = content, !.status = status, !.ts = ts]]

SessionIds(list) == {list[i].id : i \in 1..Len(list)}

RECURSIVE NotPresent(_, _)
\* sessions.filter(s => !existingIds.has(s.chat_id))
NotPresent(page, ids) ==
    IF page = <<>> THEN <<>>
    ELSE IF Head(page).id \in ids THEN NotPresent(Tail(page), ids)
         ELSE <<Head(page)>> \o NotPresent(Tail(page), ids)

\* appendChatSessions without its filter
AppendWithoutFilter(list, page) == list \o page

\* appendChatSessions: the page without the ids already present, after the list
AppendChatSessions(list, page) == list \o NotPresent(page, SessionIds(list))

RECURSIVE InsertDesc(_, _)
\* s, sorted by updatedAt descending, with x put after the elements not older
InsertDesc(x, s) ==
    IF s = <<>> THEN <<x>>
    ELSE IF Head(s).updatedAt >= x.updatedAt THEN <<Head(s)>> \o InsertDesc(x, Tail(s))
         ELSE <<x>> \o s

RECURSIVE SortSessions(_)
\* sessions.sort((a, b) => time(b.updated_at) - time(a.updated_at)): stable
SortSessions(s) ==
    IF s = <<>> THEN <<>>
    ELSE InsertDesc(s[Len(s)], SortSessions(SubSeq(s, 1, Len(s) - 1)))

(***************************************************************************)
(* The history endpoint, GET /chat/history?chat_id&limit&cursor.  A cursor *)
(* is the index of the oldest message delivered so far; no cursor asks for *)
(* the newest page.                                                        *)
(***************************************************************************)
HistoryStart(h, cursor) ==
    LET end == IF cursor = NoCursor THEN Len(h) + 1 ELSE Min(cursor, Len(h) + 1)
    IN  Max(1, end - PAGE_SIZE)

HistoryPage(h, cursor) ==
    LET end == IF cursor = NoCursor THEN Len(h) + 1 ELSE Min(cursor, Len(h) + 1)
    IN  SubSeq(h, HistoryStart(h, cursor), end - 1)

HistoryNextCursor(h, cursor) ==
    IF HistoryStart(h, cursor) > 1 THEN HistoryStart(h, cursor) ELSE NoCursor

\* response.history.map(msg => ({...msg, status: 'sent'}))
ClientMessages(page) ==
    [i \in 1..Len(page) |->
        [sid |-> page[i].sid, role |-> page[i].role, content |-> page[i].content,
         ts |-> page[i].ts, status |-> "sent"]]

Timestamps(msgs) == {msgs[i].ts : i \in 1..Len(msgs)}

RECURSIVE NewUnique(_, _)
\* clientMessages.filter(m => !existingTimestamps.has(m.timestamp))
NewUnique(page, existing) ==
    IF page = <<>> THEN <<>>
    ELSE IF Head(page).ts \in existing THEN NewUnique(Tail(page), existing)
         ELSE <<Head(page)>> \o NewUnique(Tail(page), existing)

\* the bag b with one copy of r added, and with one copy removed
Put(b, r) == b (+) SetToBag({r})
Take(b, r) == b (-) SetToBag({r})
Tasks == BagToSet(inflight)
\* the requests of one kind that are awaited
Awaited(op) == {r \in Tasks : r.op = op}

(***************************************************************************)
(* useChat: the chat-change effect and loadInitial                         *)
(***************************************************************************)
\* setCurrentChatId(id) followed, when the id changed to a non-null one, by the
\* effect on [currentChatId]: resetMessages() and loadInitial() up to its await.
\* fl is the bag of requests the calling handler leaves in flight.
ChatChanges(id) == id # currentChatId /\ id # NoChat

\* the requests in flight after setCurrentChatId(id): loadInitial's, if it ran
WithLoadInitial(id, fl) ==
    IF ChatChanges(id) THEN Put(fl, [op |-> "initial", chat |-> id]) ELSE fl

\* resetMessages without its reset of the two counters
ResetMessagesKeepsCounters ==
    /\ messages' = <<>>
    /\ hasMore' = FALSE
    /\ messagesCursor' = NoCursor
    /\ cursorFrom' = NoChat
    /\ UNCHANGED <<messagesLoadedFromHistory, messagesSentInSession>>

\* resetMessages
ResetMessages ==
    /\ messages' = <<>>
    /\ hasMore' = FALSE
    /\ messagesCursor' = NoCursor
    /\ cursorFrom' = NoChat
    /\ messagesLoadedFromHistory' = 0
    /\ messagesSentInSession' = 0

SetCurrentChatIdStore(id) ==
    /\ currentChatId' = id
    /\ IF ChatChanges(id)
       THEN /\ ResetMessages
            /\ isLoading' = TRUE
       ELSE UNCHANGED <<messages, hasMore, messagesCursor, cursorFrom, isLoading,
                        messagesLoadedFromHistory, messagesSentInSession>>

SetCurrentChatId(id, fl) ==
    /\ SetCurrentChatIdStore(id)
    /\ inflight' = WithLoadInitial(id, fl)

\* switchToChat(chatId): the user picks a session of the list
SwitchToChat(c) ==
    /\ Intents < MaxIntents
    /\ c \in SessionIds(chatSessions)
    /\ c # currentChatId
    /\ used' = [used EXCEPT !.switch = @ + 1]
    /\ SetCurrentChatId(c, inflight)
    /\ UNCHANGED <<isPaginating, storeSessVars, chatsTitled, srvVars, now,
                   authVars, fallbackVars>>

\* loadInitial after its await: the page arrives
InitialHistoryResponse(r, hm) ==
    /\ r \in Tasks /\ r.op = "initial"
    /\ r.chat \in {s.id : s \in srvSessions}
    /\ LET page == ClientMessages(HistoryPage(srvHistory[r.chat], NoCursor))
       IN IF Len(page) = 0
          THEN /\ hm = FALSE
               /\ UNCHANGED <<messages, messagesLoadedFromHistory, messagesCursor, cursorFrom, hasMore>>
          ELSE /\ messages' = page
               /\ messagesLoadedFromHistory' = messagesLoadedFromHistory + Len(page)
               /\ messagesCursor' = HistoryNextCursor(srvHistory[r.chat], NoCursor)
               /\ cursorFrom' = r.chat
               /\ hasMore' = hm
    /\ isLoading' = FALSE
    /\ inflight' = Take(inflight, r)
    /\ UNCHANGED <<currentChatId, isPaginating, messagesSentInSession, storeSessVars,
                   chatsTitled, srvVars, now, used,
                   authVars, fallbackVars>>

\* loadInitial: the request is rejected with something other than a 403
InitialHistoryFailure(r) ==
    /\ r \in Tasks /\ r.op = "initial"
    /\ r.chat \in {s.id : s \in srvSessions}
    /\ isLoading' = FALSE
    /\ inflight' = Take(inflight, r)
    /\ UNCHANGED <<messages, currentChatId, isPaginating, hasMore, messagesCursor, cursorFrom,
                   messagesLoadedFromHistory, messagesSentInSession, storeSessVars,
                   chatsTitled, srvVars, now, used,
                   authVars, fallbackVars>>

(***************************************************************************)
(* useChat: loadHistorySegment (loadPreviousMessages)                      *)
(***************************************************************************)
LoadHistorySegment ==
    /\ Intents < MaxIntents
    /\ ~(currentChatId = NoChat \/ isPaginating \/ isLoading \/ ~hasMore)
    /\ used' = [used EXCEPT !.older = @ + 1]
    /\ isPaginating' = TRUE
    /\ inflight' = Put(inflight, [op |-> "older", chat |-> currentChatId,
                                  cursor |-> messagesCursor, msgs |-> messages])
    /\ UNCHANGED <<messages, currentChatId, isLoading, hasMore, messagesCursor, cursorFrom,
                   messagesLoadedFromHistory, messagesSentInSession, storeSessVars,
                   chatsTitled, srvVars, now,
                   authVars, fallbackVars>>

\* what loadHistorySegment does with a page: the closure's messages are the base
OlderResponse(r, hm) ==
    /\ r \in Tasks /\ r.op = "older"
    /\ r.chat \in {s.id : s \in srvSessions}
    /\ LET page == ClientMessages(HistoryPage(srvHistory[r.chat], r.cursor))
           fresh == NewUnique(page, Timestamps(r.msgs))
       IN IF Len(page) = 0 \/ Len(fresh) = 0
          THEN /\ hm = FALSE
               /\ hasMore' = FALSE
               /\ UNCHANGED <<messages, messagesLoadedFromHistory, messagesCursor, cursorFrom>>
          ELSE /\ messagesLoadedFromHistory' = messagesLoadedFromHistory + Len(fresh)
               /\ messages' = fresh \o r.msgs
               /\ messagesCursor' = HistoryNextCursor(srvHistory[r.chat], r.cursor)
               /\ cursorFrom' = r.chat
               /\ hasMore' = hm
    /\ isPaginating' = FALSE
    /\ inflight' = Take(inflight, r)
    /\ UNCHANGED <<currentChatId, isLoading, messagesSentInSession, storeSessVars,
                   chatsTitled, srvVars, now, used,
                   authVars, fallbackVars>>

\* loadHistorySegment without its finally: a rejected request leaves the flag set
OlderFailureKeepsFlag(r) ==
    /\ r \in Tasks /\ r.op = "older"
    /\ inflight' = Take(inflight, r)
    /\ UNCHANGED <<messages, currentChatId, isLoading, isPaginating, hasMore, messagesCursor,
                   cursorFrom, messagesLoadedFromHistory, messagesSentInSession, storeSessVars,
                   chatsTitled, srvVars, now, used,
                   authVars, fallbackVars>>

\* loadHistorySegment: the request is rejected (catch, finally)
OlderFailure(r) ==
    /\ r \in Tasks /\ r.op = "older"
    /\ isPaginating' = FALSE
    /\ inflight' = Take(inflight, r)
    /\ UNCHANGED <<messages, currentChatId, isLoading, hasMore, messagesCursor, cursorFrom,
                   messagesLoadedFromHistory, messagesSentInSession, storeSessVars,
                   chatsTitled, srvVars, now, used,
                   authVars, fallbackVars>>

(***************************************************************************)
(* The session endpoints.  The first page holds the SESSIONS_PAGE_SIZE     *)
(* most recently updated sessions; a page asked for with a cursor is any   *)
(* page of the user's sessions (the data may have shifted under the        *)
(* cursor).  The order inside a page is the server's choice.               *)
(***************************************************************************)
SrvIds == {s.id : s \in srvSessions}
SrvSession(c) == CHOOSE s \in srvSessions : s.id = c

\* the sequences of n distinct elements of S
Pages(S, n) ==
    {q \in [1..n -> S] : \A i, j \in 1..n : i # j => q[i] # q[j]}

FirstPages ==
    {q \in Pages(srvSessions, Min(SESSIONS_PAGE_SIZE, Cardinality(srvSessions))) :
        \A x \in Range(q) : \A y \in srvSessions \ Range(q) : x.updatedAt >= y.updatedAt}
FirstHasMore == Cardinality(srvSessions) > SESSIONS_PAGE_SIZE
FirstNextCursor == IF FirstHasMore THEN 1 ELSE NoCursor

CursorPages ==
    UNION {Pages(srvSessions, n) :
             n \in 0..Min(SESSIONS_PAGE_SIZE, Cardinality(srvSessions))}

(***************************************************************************)
(* useChat: sendMessage                                                    *)
(***************************************************************************)
\* the gate without its test of the message count
AutoTitleGateAnyCount(list, c) ==
    \E i \in 1..Len(list) :
        /\ list[i].id = c
        /\ \A j \in 1..(i - 1) : list[j].id # c
        /\ list[i].title = DefaultTitle

\* chatSessions.find(s => s.chat_id === currentChatId) with the title and count
\* test of the auto-title gate, on the session list the closure captured
AutoTitleGate(list, c) ==
    \E i \in 1..Len(list) :
        /\ list[i].id = c
        /\ \A j \in 1..(i - 1) : list[j].id # c
        /\ list[i].title = DefaultTitle
        /\ list[i].count = 0

\* newUserMessage and loadingAssistantMessage: the user sends at a later time
\* than anything before; d = 0: the two new Date() calls of the handler fall
\* into the same millisecond
NewUserMessage(d) ==
    [sid |-> currentChatId, role |-> "user",
     content |-> [k |-> "prompt", n |-> used.send + 1],
     ts |-> ClientTs(now + 1), status |-> "sent"]

LoadingAssistantMessage(d) ==
    [sid |-> currentChatId, role |-> "assistant",
     content |-> [k |-> "thinking", n |-> 0],
     ts |-> ClientTs(now + 1 + d), status |-> "loading"]

\* no session: what find returns when the list holds no session with the id
NoSession == [id |-> NoChat, title |-> "", updatedAt |-> 0, count |-> 0]

\* chatSessions.find(s => s.chat_id === currentChatId)
CurrentChat(list, c) ==
    IF c \in SessionIds(list)
    THEN list[CHOOSE i \in 1..Len(list) :
                 list[i].id = c /\ \A j \in 1..(i - 1) : list[j].id # c]
    ELSE NoSession

\* the closure of a send: the counts, hasMore and the session list of the render
\* it was invoked in (cur, gate), and the placeholder it appended (ph); titled
\* records whether the session was in the titled-set at that moment
SendMessage(d) ==
    /\ Intents < MaxIntents
    /\ ~(currentChatId = NoChat \/ isLoading)
    /\ used' = [used EXCEPT !.send = @ + 1]
    /\ isLoading' = TRUE
    /\ messages' = AddMessage(AddMessage(messages, NewUserMessage(d)),
                              LoadingAssistantMessage(d))
    /\ now' = now + 1 + d
    /\ inflight' = Put(inflight,
         [op |-> "send", chat |-> currentChatId, n |-> used.send + 1,
          loaded |-> messagesLoadedFromHistory, sent |-> messagesSentInSession,
          hm |-> hasMore, gate |-> AutoTitleGate(chatSessions, currentChatId),
          cur |-> CurrentChat(chatSessions, currentChatId),
          titled |-> (currentChatId \in chatsTitled),
          ph |-> LoadingAssistantMessage(d)])
    /\ UNCHANGED <<currentChatId, isPaginating, hasMore, messagesCursor, cursorFrom,
                   messagesLoadedFromHistory, messagesSentInSession, storeSessVars,
                   chatsTitled, srvVars,
                   authVars, fallbackVars>>

\* the bookkeeping without its test of hasMore
HasMoreAfterSendUntested(r, live) ==
    IF r.loaded + r.sent + 2 > PAGE_SIZE THEN TRUE ELSE live

\* the pagination bookkeeping of a successful send, on the closure's counts
HasMoreAfterSend(r, live) ==
    IF r.loaded + r.sent + 2 > PAGE_SIZE /\ ~r.hm THEN TRUE ELSE live

\* the prompt of the n-th send and the reply the inference service gave to it
PromptOf(n) == [k |-> "prompt", n |-> n]
ReplyOf(n) == [k |-> "reply", n |-> n]

\* the value of a parameter the caller passed no argument for
Undefined == [k |-> "undefined", n |-> 0]

\* smartTitleService.generateTitle(userId, firstMessage, assistantResponse): the
\* header and the body of the request it posts, and the message its catch block
\* gives to generateFallbackTitle
GenerateTitle(userId, firstMessage, assistantResponse) ==
    [userId |-> userId, first_message |-> firstMessage,
     assistant_message |-> assistantResponse, fallbackOf |-> firstMessage]

\* whether a successful send starts title generation
StartsAutoTitle(r, titled) == r.chat \notin titled /\ r.gate

\* the inference request succeeded: the server stored the exchange
InferenceResponse(r) ==
    /\ r \in Tasks /\ r.op = "send"
    /\ r.chat \in SrvIds
    /\ now' = now + 2
    /\ srvHistory' = [srvHistory EXCEPT ![r.chat] = @ \o
         << [sid |-> r.chat, role |-> "user",
             content |-> [k |-> "prompt", n |-> r.n], ts |-> ServerTs(now + 1)],
            [sid |-> r.chat, role |-> "assistant",
             content |-> [k |-> "reply", n |-> r.n], ts |-> ServerTs(now + 2)] >>]
    /\ srvSessions' = (srvSessions \ {SrvSession(r.chat)}) \cup
         {[SrvSession(r.chat) EXCEPT !.updatedAt = now + 2, !.count = @ + 2]}
    /\ messages' = UpdateLastMessage(messages, [k |-> "reply", n |-> r.n], "sent",
                                     ClientTs(now + 2))
    /\ messagesSentInSession' = messagesSentInSession + 2
    /\ hasMore' = HasMoreAfterSend(r, hasMore)
    /\ inflight' =
         LET rest == Put(Take(inflight, r), [op |-> "refresh", k |-> "none"])
         IN  IF StartsAutoTitle(r, chatsTitled)
             THEN Put(rest, [op |-> "gentitle", chat |-> r.chat, n |-> r.n,
                             req |-> GenerateTitle(PromptOf(r.n), ReplyOf(r.n),
                                                   Undefined)])
             ELSE rest
    /\ titleLog' = IF StartsAutoTitle(r, chatsTitled)
                   THEN [titleLog EXCEPT ![r.chat].gens = @ + 1]
                   ELSE titleLog
    /\ isLoading' = FALSE
    /\ UNCHANGED <<currentChatId, isPaginating, messagesCursor, cursorFrom, srvNextId,
                   messagesLoadedFromHistory, storeSessVars, chatsTitled, used,
                   authVars, fallbackVars>>

\* the inference request was rejected
InferenceFailure(r) ==
    /\ r \in Tasks /\ r.op = "send"
    /\ now' = now + 1
    /\ messages' = UpdateLastMessage(messages, [k |-> "error", n |-> 0], "error",
                                     ClientTs(now + 1))
    /\ messagesSentInSession' = messagesSentInSession + 2
    /\ isLoading' = FALSE
    /\ inflight' = Take(inflight, r)
    /\ UNCHANGED <<currentChatId, isPaginating, hasMore, messagesCursor, cursorFrom,
                   messagesLoadedFromHistory, storeSessVars, chatsTitled, srvVars, used,
                   authVars, fallbackVars>>

(***************************************************************************)
(* useChat: the auto-title block of sendMessage                            *)
(***************************************************************************)
\* smartTitleService.generateTitle settled (it never rejects: a failed
\* suggestion request yields the fallback title); the rename is requested.
\* titleOf is the message the title was made of: the fallback title is computed
\* from the catch block's firstMessage, a suggestion from the request's
\* first_message
TitleGenerated(r, fb) ==
    /\ r \in Tasks /\ r.op = "gentitle"
    /\ inflight' = Put(Take(inflight, r),
                       [op |-> "autorename", chat |-> r.chat, n |-> r.n, fallback |-> fb,
                        titleOf |-> IF fb THEN r.req.fallbackOf
                                    ELSE r.req.first_message])
    /\ UNCHANGED <<storeMsgVars, currentChatId, storeSessVars, chatsTitled, srvVars,
                   now, used,
                   authVars, fallbackVars>>

\* markChatAsTitled
MarkChatAsTitled(titled, c) == titled \cup {c}

\* updateChatSession(currentChatId, titleResult.title) succeeded
AutoRenameResponse(r) ==
    /\ r \in Tasks /\ r.op = "autorename"
    /\ r.chat \in SrvIds
    /\ srvSessions' = (srvSessions \ {SrvSession(r.chat)}) \cup
                      {[SrvSession(r.chat) EXCEPT !.title = "Auto"]}
    /\ titleLog' = [titleLog EXCEPT ![r.chat].writes = @ + 1]
    /\ chatsTitled' = MarkChatAsTitled(chatsTitled, r.chat)
    /\ inflight' = Put(Take(inflight, r), [op |-> "refresh", k |-> "none"])
    /\ UNCHANGED <<storeMsgVars, currentChatId, storeSessVars, srvHistory, srvNextId,
                   now, used,
                   authVars, fallbackVars>>

\* the title persist marking the session although the write was rejected
AutoRenameFailureMarksTitled(r) ==
    /\ r \in Tasks /\ r.op = "autorename"
    /\ chatsTitled' = MarkChatAsTitled(chatsTitled, r.chat)
    /\ inflight' = Take(inflight, r)
    /\ UNCHANGED <<storeMsgVars, currentChatId, storeSessVars, srvVars,
                   now, used,
                   authVars, fallbackVars>>

\* updateChatSession rejected: the catch inside the .then logs it
AutoRenameFailure(r) ==
    /\ r \in Tasks /\ r.op = "autorename"
    /\ inflight' = Take(inflight, r)
    /\ UNCHANGED <<storeMsgVars, currentChatId, storeSessVars, chatsTitled, srvVars,
                   now, used,
                   authVars, fallbackVars>>

(***************************************************************************)
(* useChat: loadChatSessions, and what the handler awaiting it does next   *)
(***************************************************************************)
\* r.k names the code after `await loadChatSessions()`:
\*   "none"            nothing (a fire-and-forget call, or the end of a handler)
\*   "finallyLoading"  loadInitial's finally, after its 403 branch ran startNewChat
\*   "deleteTail"      deleteChat after startNewChat: resetSessionsPagination and
\*                     a second loadChatSessions
LoadChatSessionsDone(r, ok, q) ==
    /\ r \in Tasks /\ r.op = "refresh"
    /\ q \in FirstPages
    /\ chatSessions' = IF ok THEN SortSessions(q) ELSE chatSessions
    /\ IF r.k = "deleteTail"
       THEN /\ sessionsCursor' = NoCursor
            /\ hasMoreSessions' = FALSE
            /\ inflight' = Put(Take(inflight, r), [op |-> "refresh", k |-> "none"])
       ELSE /\ sessionsCursor' = IF ok THEN FirstNextCursor ELSE sessionsCursor
            /\ hasMoreSessions' = IF ok THEN FirstHasMore ELSE hasMoreSessions
            /\ inflight' = Take(inflight, r)
    /\ isLoading' = IF r.k = "finallyLoading" THEN FALSE ELSE isLoading
    /\ UNCHANGED <<messages, currentChatId, isPaginating, hasMore, messagesCursor, cursorFrom,
                   messagesLoadedFromHistory, messagesSentInSession,
                   isLoadingSessions, chatsTitled, srvVars, now, used,
                   authVars, fallbackVars>>

LoadChatSessionsResponse(r) ==
    \E q \in FirstPages : LoadChatSessionsDone(r, TRUE, q)

LoadChatSessionsFailure(r) ==
    LoadChatSessionsDone(r, FALSE, CHOOSE q \in FirstPages : TRUE)

(***************************************************************************)
(* useChat: loadMoreSessions                                               *)
(***************************************************************************)
LoadMoreSessions ==
    /\ Intents < MaxIntents
    /\ ~(isLoadingSessions \/ ~hasMoreSessions \/ sessionsCursor = NoCursor)
    /\ used' = [used EXCEPT !.more = @ + 1]
    /\ isLoadingSessions' = TRUE
    /\ inflight' = Put(inflight, [op |-> "more", cursor |-> sessionsCursor,
                                  base |-> chatSessions])
    /\ UNCHANGED <<storeMsgVars, currentChatId, chatSessions, hasMoreSessions,
                   sessionsCursor, chatsTitled, srvVars, now,
                   authVars, fallbackVars>>

\* loadMoreSessions called twice on the callback of one render (two scroll events
\* before the component re-rendered): the guard of the second call reads the
\* isLoadingSessions, hasMoreSessions and sessionsCursor the closure captured, so
\* it passes like the first, and the second request carries the same cursor
LoadMoreSessionsTwice ==
    /\ Intents < MaxIntents
    /\ ~(isLoadingSessions \/ ~hasMoreSessions \/ sessionsCursor = NoCursor)
    /\ used' = [used EXCEPT !.more = @ + 1]
    /\ isLoadingSessions' = TRUE
    /\ inflight' = Put(Put(inflight, [op |-> "more", cursor |-> sessionsCursor,
                                      base |-> chatSessions]),
                       [op |-> "more", cursor |-> sessionsCursor, base |-> chatSessions])
    /\ UNCHANGED <<storeMsgVars, currentChatId, chatSessions, hasMoreSessions,
                   sessionsCursor, chatsTitled, srvVars, now,
                   authVars, fallbackVars>>

\* the ids of the sessions of a page whose title is not the default
TitledIn(page) == {page[i].id : i \in {j \in 1..Len(page) : page[j].title # DefaultTitle}}

LoadMoreResponse(r, q, hm) ==
    /\ r \in Tasks /\ r.op = "more"
    /\ q \in CursorPages
    /\ IF Len(q) = 0
       THEN /\ hm = FALSE
            /\ hasMoreSessions' = FALSE
            /\ UNCHANGED <<chatSessions, sessionsCursor, chatsTitled>>
       ELSE /\ chatSessions' = AppendChatSessions(chatSessions, SortSessions(q))
            /\ sessionsCursor' = IF hm THEN r.cursor + 1 ELSE NoCursor
            /\ hasMoreSessions' = hm
            /\ chatsTitled' = chatsTitled \cup TitledIn(q)
    /\ isLoadingSessions' = FALSE
    /\ inflight' = Take(inflight, r)
    /\ UNCHANGED <<storeMsgVars, currentChatId, srvVars, now, used,
                   authVars, fallbackVars>>

\* loadMoreSessions treating a rejected request as the end of the list
LoadMoreFailureEndsPaging(r) ==
    /\ r \in Tasks /\ r.op = "more"
    /\ isLoadingSessions' = FALSE
    /\ hasMoreSessions' = FALSE
    /\ inflight' = Take(inflight, r)
    /\ UNCHANGED <<storeMsgVars, currentChatId, chatSessions,
                   sessionsCursor, chatsTitled, srvVars, now, used,
                   authVars, fallbackVars>>

\* loadMoreSessions: the request is rejected (catch, finally)
LoadMoreFailure(r) ==
    /\ r \in Tasks /\ r.op = "more"
    /\ isLoadingSessions' = FALSE
    /\ inflight' = Take(inflight, r)
    /\ UNCHANGED <<storeMsgVars, currentChatId, chatSessions, hasMoreSessions,
                   sessionsCursor, chatsTitled, srvVars, now, used,
                   authVars, fallbackVars>>

(***************************************************************************)
(* useChat: startNewChat                                                   *)
(***************************************************************************)
\* resetSessionsPagination
ResetSessionsPagination ==
    /\ sessionsCursor' = NoCursor
    /\ hasMoreSessions' = FALSE

\* the session the server creates for POST /chat/sessions
CreatedSession ==
    [id |-> srvNextId, title |-> DefaultTitle, updatedAt |-> now + 1, count |-> 0]

\* r.k names the caller that awaits startNewChat: "user" (the button), "initial403"
\* (loadInitial's 403 branch) or "delete" (deleteChat with no session left)
StartNewChat ==
    /\ Intents < MaxIntents
    /\ inflight' = Put(inflight, [op |-> "create", k |-> "user"])
    /\ used' = [used EXCEPT !.newchat = @ + 1]
    /\ UNCHANGED <<storeMsgVars, currentChatId, storeSessVars, chatsTitled, srvVars, now,
                   authVars, fallbackVars>>

AfterStartNewChat(k) ==
    CASE k = "user" -> "none"
      [] k = "initial403" -> "finallyLoading"
      [] k = "delete" -> "deleteTail"

CreateResponse(r) ==
    /\ r \in Tasks /\ r.op = "create"
    /\ srvNextId <= MaxChats
    /\ srvSessions' = srvSessions \cup {CreatedSession}
    /\ srvNextId' = srvNextId + 1
    /\ now' = now + 1
    /\ SetCurrentChatId(srvNextId,
         Put(Take(inflight, r), [op |-> "refresh", k |-> AfterStartNewChat(r.k)]))
    /\ ResetSessionsPagination
    /\ UNCHANGED <<isPaginating, chatSessions, isLoadingSessions, chatsTitled,
                   srvHistory, titleLog, used,
                   authVars, fallbackVars>>

\* createChatSession rejected: startNewChat logs it and returns to its caller
CreateFailure(r) ==
    /\ r \in Tasks /\ r.op = "create"
    /\ isLoading' = IF r.k = "initial403" THEN FALSE ELSE isLoading
    /\ IF r.k = "delete"
       THEN /\ ResetSessionsPagination
            /\ inflight' = Put(Take(inflight, r), [op |-> "refresh", k |-> "none"])
       ELSE /\ UNCHANGED <<sessionsCursor, hasMoreSessions>>
            /\ inflight' = Take(inflight, r)
    /\ UNCHANGED <<messages, currentChatId, isPaginating, hasMore, messagesCursor, cursorFrom,
                   messagesLoadedFromHistory, messagesSentInSession, chatSessions,
                   isLoadingSessions, chatsTitled, srvVars, now, used,
                   authVars, fallbackVars>>

\* loadInitial: a 403 (the session is not the user's): await startNewChat()
InitialHistoryForbidden(r) ==
    /\ r \in Tasks /\ r.op = "initial"
    /\ r.chat \notin SrvIds
    /\ inflight' = Put(Take(inflight, r), [op |-> "create", k |-> "initial403"])
    /\ UNCHANGED <<storeMsgVars, currentChatId, storeSessVars, chatsTitled, srvVars,
                   now, used,
                   authVars, fallbackVars>>

(***************************************************************************)
(* useChat: deleteChat and updateChatTitle                                 *)
(***************************************************************************)
DeleteChat(c) ==
    /\ Intents < MaxIntents
    /\ c \in SessionIds(chatSessions)
    /\ used' = [used EXCEPT !.delete = @ + 1]
    /\ inflight' = Put(inflight, [op |-> "delete", chat |-> c, cur |-> currentChatId,
                                  sessions |-> chatSessions])
    /\ UNCHANGED <<storeMsgVars, currentChatId, storeSessVars, chatsTitled, srvVars, now,
                   authVars, fallbackVars>>

RECURSIVE Remaining(_, _)
\* chatSessions.filter(s => s.chat_id !== chatId)
Remaining(list, c) ==
    IF list = <<>> THEN <<>>
    ELSE IF Head(list).id = c THEN Remaining(Tail(list), c)
         ELSE <<Head(list)>> \o Remaining(Tail(list), c)

\* unmarkChatAsTitled
UnmarkChatAsTitled(titled, c) == titled \ {c}

DeleteResponse(r) ==
    /\ r \in Tasks /\ r.op = "delete"
    /\ r.chat \in SrvIds
    /\ srvSessions' = srvSessions \ {SrvSession(r.chat)}
    /\ srvHistory' = [srvHistory EXCEPT ![r.chat] = <<>>]
    /\ chatsTitled' = UnmarkChatAsTitled(chatsTitled, r.chat)
    /\ IF r.chat = r.cur /\ Remaining(r.sessions, r.chat) = <<>>
       THEN /\ inflight' = Put(Take(inflight, r), [op |-> "create", k |-> "delete"])
            /\ UNCHANGED <<storeMsgVars, currentChatId, sessionsCursor, hasMoreSessions>>
       ELSE /\ SetCurrentChatId(
                 IF r.chat = r.cur THEN Remaining(r.sessions, r.chat)[1].id
                 ELSE currentChatId,
                 Put(Take(inflight, r), [op |-> "refresh", k |-> "none"]))
            /\ ResetSessionsPagination
            /\ UNCHANGED isPaginating
    /\ UNCHANGED <<chatSessions, isLoadingSessions, srvNextId, titleLog, now, used,
                   authVars, fallbackVars>>

DeleteFailure(r) ==
    /\ r \in Tasks /\ r.op = "delete"
    /\ inflight' = Take(inflight, r)
    /\ UNCHANGED <<storeMsgVars, currentChatId, storeSessVars, chatsTitled, srvVars,
                   now, used,
                   authVars, fallbackVars>>

UpdateChatTitle(c) ==
    /\ Intents < MaxIntents
    /\ c \in SessionIds(chatSessions)
    /\ used' = [used EXCEPT !.rename = @ + 1]
    /\ inflight' = Put(inflight, [op |-> "rename", chat |-> c])
    /\ UNCHANGED <<storeMsgVars, currentChatId, storeSessVars, chatsTitled, srvVars, now,
                   authVars, fallbackVars>>

RenameResponse(r) ==
    /\ r \in Tasks /\ r.op = "rename"
    /\ r.chat \in SrvIds
    /\ srvSessions' = (srvSessions \ {SrvSession(r.chat)}) \cup
                      {[SrvSession(r.chat) EXCEPT !.title = "Manual"]}
    /\ chatsTitled' = MarkChatAsTitled(chatsTitled, r.chat)
    /\ inflight' = Put(Take(inflight, r), [op |-> "refresh", k |-> "none"])
    /\ UNCHANGED <<storeMsgVars, currentChatId, storeSessVars, srvHistory, srvNextId,
                   titleLog, now, used,
                   authVars, fallbackVars>>

RenameFailure(r) ==
    /\ r \in Tasks /\ r.op = "rename"
    /\ inflight' = Take(inflight, r)
    /\ UNCHANGED <<storeMsgVars, currentChatId, storeSessVars, chatsTitled, srvVars,
                   now, used,
                   authVars, fallbackVars>>

(***************************************************************************)
(* useChat: the initialization effect and the module-level guard           *)
(***************************************************************************)
\* one run of the effect body; g holds the guard and hasInitialized as they are
\* now, snap is the hasInitialized the effect's closure was rendered with
InitEffectRun(g, snap) ==
    IF ~isAuthenticated \/ user = NoUser \/ snap THEN g
    ELSE IF g.lastUser = user THEN [g EXCEPT !.hasInit = TRUE]
    ELSE IF g.inProgress
         THEN IF g.promise # 0 THEN [g EXCEPT !.waiters = @ + 1] ELSE g
    ELSE [g EXCEPT !.inProgress = TRUE, !.lastUser = user, !.hasInit = TRUE,
                   !.promise = initN + 1, !.started = @ + 1]

RECURSIVE InitEffectRuns(_, _, _)
InitEffectRuns(g, snap, n) ==
    IF n = 0 THEN g ELSE InitEffectRuns(InitEffectRun(g, snap), snap, n - 1)

\* the effect runs in every mounted instance after a render that changed its
\* dependencies; all runs of one commit see the same rendered hasInitialized
RunInitEffect ==
    /\ effDirty
    /\ LET g == InitEffectRuns(
                  [inProgress |-> globalInitInProgress, lastUser |-> lastInitUserId,
                   promise |-> globalInitPromise, hasInit |-> hasInitialized,
                   waiters |-> 0, started |-> 0],
                  hasInitialized, HookInstances)
           w == [op |-> "waiter", p |-> g.promise]
           fl1 == IF g.started > 0
                  THEN Put(inflight, [op |-> "initlist", p |-> g.promise,
                                      login |-> used.login])
                  ELSE inflight
       IN /\ g.started = 0 \/ initN < MaxInits
          /\ globalInitInProgress' = g.inProgress
          /\ lastInitUserId' = g.lastUser
          /\ globalInitPromise' = g.promise
          /\ hasInitialized' = g.hasInit
          /\ initN' = initN + g.started
          /\ effDirty' = (g.hasInit # hasInitialized)
          /\ inflight' = IF g.waiters > 0 /\ ~BagIn(w, fl1) THEN Put(fl1, w) ELSE fl1
    /\ UNCHANGED <<storeMsgVars, currentChatId, storeSessVars, chatsTitled,
                   isAuthenticated, user, srvVars, now, used,
                   fallbackVars>>

\* the settling of a bootstrap whose catch keeps the record of the user
SettleInitKeepsUser(p, failed, fl) ==
    LET w == [op |-> "waiter", p |-> p]
        h == IF BagIn(w, fl) THEN TRUE ELSE IF failed THEN FALSE ELSE hasInitialized
    IN /\ hasInitialized' = h
       /\ effDirty' = (effDirty \/ h # hasInitialized)
       /\ globalInitInProgress' = FALSE
       /\ inflight' = Put(IF BagIn(w, fl) THEN Take(fl, w) ELSE fl, [op |-> "clearPromise"])
       /\ UNCHANGED <<isAuthenticated, user, globalInitPromise, initN, lastInitUserId>>

\* the promise of bootstrap p settles: .catch (after a failure), .finally, and
\* the .then of the triggers that waited on it; fl is the bag left in flight
SettleInit(p, failed, fl) ==
    LET w == [op |-> "waiter", p |-> p]
        h == IF BagIn(w, fl) THEN TRUE ELSE IF failed THEN FALSE ELSE hasInitialized
    IN /\ hasInitialized' = h
       /\ effDirty' = (effDirty \/ h # hasInitialized)
       /\ globalInitInProgress' = FALSE
       /\ lastInitUserId' = IF failed THEN NoUser ELSE lastInitUserId
       /\ inflight' = Put(IF BagIn(w, fl) THEN Take(fl, w) ELSE fl, [op |-> "clearPromise"])
       /\ UNCHANGED <<isAuthenticated, user, globalInitPromise, initN>>

\* setTimeout(() => { globalInitPromise = null }, 1000)
ClearInitPromise(r) ==
    /\ r \in Tasks /\ r.op = "clearPromise"
    /\ globalInitPromise' = 0
    /\ inflight' = Take(inflight, r)
    /\ UNCHANGED <<storeMsgVars, currentChatId, storeSessVars, chatsTitled,
                   isAuthenticated, user, hasInitialized, globalInitInProgress,
                   lastInitUserId, effDirty, initN, srvVars, now, used,
                   fallbackVars>>

(***************************************************************************)
(* useChat: initializeChats                                                *)
(***************************************************************************)
\* initializeChats making the last session of the sorted page the active one
InitListResponseOldest(r, q) ==
    /\ r \in Tasks /\ r.op = "initlist"
    /\ q \in FirstPages
    /\ chatSessions' = SortSessions(q)
    /\ hasMoreSessions' = FirstHasMore
    /\ sessionsCursor' = FirstNextCursor
    /\ chatsTitled' = chatsTitled \cup TitledIn(q)
    /\ IF Len(q) > 0
       THEN /\ SetCurrentChatIdStore(SortSessions(q)[Len(q)].id)
            /\ SettleInit(r.p, FALSE,
                          WithLoadInitial(SortSessions(q)[Len(q)].id, Take(inflight, r)))
       ELSE /\ inflight' = Put(Take(inflight, r),
                               [op |-> "initcreate", p |-> r.p, login |-> r.login])
            /\ UNCHANGED <<messages, hasMore, messagesCursor, cursorFrom, isLoading, currentChatId,
                           messagesLoadedFromHistory, messagesSentInSession, authVars>>
    /\ UNCHANGED <<isPaginating, isLoadingSessions, srvVars, now, used,
                   fallbackVars>>

\* the first page arrived
InitListResponse(r, q) ==
    /\ r \in Tasks /\ r.op = "initlist"
    /\ q \in FirstPages
    /\ chatSessions' = SortSessions(q)
    /\ hasMoreSessions' = FirstHasMore
    /\ sessionsCursor' = FirstNextCursor
    /\ chatsTitled' = chatsTitled \cup TitledIn(q)
    /\ IF Len(q) > 0
       THEN /\ SetCurrentChatIdStore(SortSessions(q)[1].id)
            /\ SettleInit(r.p, FALSE,
                          WithLoadInitial(SortSessions(q)[1].id, Take(inflight, r)))
       ELSE /\ inflight' = Put(Take(inflight, r),
                               [op |-> "initcreate", p |-> r.p, login |-> r.login])
            /\ UNCHANGED <<messages, hasMore, messagesCursor, cursorFrom, isLoading, currentChatId,
                           messagesLoadedFromHistory, messagesSentInSession, authVars>>
    /\ UNCHANGED <<isPaginating, isLoadingSessions, srvVars, now, used,
                   fallbackVars>>

\* no session existed and the server created one: it becomes active, is put in
\* the list at once, and the list is fetched again 300 ms later
InitCreateResponse(r) ==
    /\ r \in Tasks /\ r.op = "initcreate"
    /\ srvNextId <= MaxChats
    /\ srvSessions' = srvSessions \cup {CreatedSession}
    /\ srvNextId' = srvNextId + 1
    /\ now' = now + 1
    /\ SetCurrentChatIdStore(srvNextId)
    /\ chatSessions' = << CreatedSession >>
    /\ sessionsCursor' = NoCursor
    /\ SettleInit(r.p, FALSE,
                  Put(WithLoadInitial(srvNextId, Take(inflight, r)), [op |-> "refetchTimer"]))
    /\ UNCHANGED <<isPaginating, hasMoreSessions, isLoadingSessions, chatsTitled,
                   srvHistory, titleLog, used,
                   fallbackVars>>

\* getChatSession or createChatSession rejected: initializeChats rethrows
InitFailure(r) ==
    /\ r \in Tasks /\ r.op \in {"initlist", "initcreate"}
    /\ SettleInit(r.p, TRUE, Take(inflight, r))
    /\ UNCHANGED <<storeMsgVars, currentChatId, storeSessVars, chatsTitled, srvVars,
                   now, used,
                   fallbackVars>>

\* the 300 ms timer fires: the list is requested again
RefetchStart(r) ==
    /\ r \in Tasks /\ r.op = "refetchTimer"
    /\ inflight' = Put(Take(inflight, r), [op |-> "refetch"])
    /\ UNCHANGED <<storeMsgVars, currentChatId, storeSessVars, chatsTitled, authVars,
                   srvVars, now, used,
                   fallbackVars>>

\* setChatSessions(updated.sessions): the page as the server ordered it
RefetchResponse(r, q) ==
    /\ r \in Tasks /\ r.op = "refetch"
    /\ q \in FirstPages
    /\ chatSessions' = q
    /\ hasMoreSessions' = FirstHasMore
    /\ sessionsCursor' = FirstNextCursor
    /\ inflight' = Take(inflight, r)
    /\ UNCHANGED <<storeMsgVars, currentChatId, isLoadingSessions, chatsTitled, authVars,
                   srvVars, now, used,
                   fallbackVars>>

RefetchFailure(r) ==
    /\ r \in Tasks /\ r.op = "refetch"
    /\ inflight' = Take(inflight, r)
    /\ UNCHANGED <<storeMsgVars, currentChatId, storeSessVars, chatsTitled, authVars,
                   srvVars, now, used,
                   fallbackVars>>

(***************************************************************************)
(* useChat: the auth-state effect                                          *)
(***************************************************************************)
Login(u) ==
    /\ Intents < MaxIntents
    /\ ~isAuthenticated
    /\ used' = [used EXCEPT !.login = @ + 1]
    /\ isAuthenticated' = TRUE
    /\ user' = u
    /\ effDirty' = TRUE
    /\ UNCHANGED <<storeMsgVars, currentChatId, storeSessVars, chatsTitled,
                   hasInitialized, globalInitPromise, globalInitInProgress,
                   lastInitUserId, initN, srvVars, now, inflight,
                   fallbackVars>>

\* resetAllState
ResetAllState ==
    /\ messages' = <<>>
    /\ currentChatId' = NoChat
    /\ chatSessions' = <<>>
    /\ isLoading' = FALSE
    /\ isPaginating' = FALSE
    /\ hasMore' = FALSE
    /\ sessionsCursor' = NoCursor
    /\ messagesCursor' = NoCursor
    /\ cursorFrom' = NoChat
    /\ hasMoreSessions' = FALSE
    /\ isLoadingSessions' = FALSE
    /\ messagesLoadedFromHistory' = 0
    /\ messagesSentInSession' = 0
    /\ chatsTitled' = {}

\* the logout branch without its reset of lastInitUserId
LogoutKeepsLastUser ==
    /\ Intents < MaxIntents
    /\ isAuthenticated
    /\ used' = [used EXCEPT !.logout = @ + 1]
    /\ isAuthenticated' = FALSE
    /\ user' = NoUser
    /\ ResetAllState
    /\ hasInitialized' = FALSE
    /\ globalInitPromise' = 0
    /\ globalInitInProgress' = FALSE
    /\ effDirty' = TRUE
    /\ UNCHANGED <<initN, srvVars, now, inflight, lastInitUserId,
                   fallbackVars>>

\* isAuthenticated goes from true to false: the effect resets everything
Logout ==
    /\ Intents < MaxIntents
    /\ isAuthenticated
    /\ used' = [used EXCEPT !.logout = @ + 1]
    /\ isAuthenticated' = FALSE
    /\ user' = NoUser
    /\ ResetAllState
    /\ hasInitialized' = FALSE
    /\ globalInitPromise' = 0
    /\ globalInitInProgress' = FALSE
    /\ lastInitUserId' = NoUser
    /\ effDirty' = TRUE
    /\ UNCHANGED <<initN, srvVars, now, inflight,
                   fallbackVars>>

(***************************************************************************)
(* api/smart-title-service.ts: generateFallbackTitle.  A string is the     *)
(* sequence of its characters; indices are JavaScript's, from 0.           *)
(***************************************************************************)
MaxTitleLength == 50
TruncateLength == 47
MinBreakIndex == 30

\* the characters \s matches, among those of the inputs
WhitespaceChars == {" ", "\t"}

RECURSIVE TrimStart(_)
TrimStart(s) ==
    IF s # <<>> /\ Head(s) \in WhitespaceChars THEN TrimStart(Tail(s)) ELSE s

RECURSIVE TrimEnd(_)
TrimEnd(s) ==
    IF s # <<>> /\ s[Len(s)] \in WhitespaceChars
    THEN TrimEnd(SubSeq(s, 1, Len(s) - 1))
    ELSE s

\* message.trim()
Trim(s) == TrimEnd(TrimStart(s))

RECURSIVE ReplaceRuns(_, _, _)
\* what the replacement leaves of s[lo..hi]: a whitespace character that opens
\* a run becomes one space, the rest of the run nothing
ReplaceRuns(s, lo, hi) ==
    IF lo > hi THEN <<>>
    ELSE IF lo = hi
         THEN IF s[lo] \notin WhitespaceChars THEN <<s[lo]>>
              ELSE IF lo > 1 /\ s[lo - 1] \in WhitespaceChars THEN <<>>
              ELSE <<" ">>
    ELSE ReplaceRuns(s, lo, (lo + hi) \div 2) \o ReplaceRuns(s, (lo + hi) \div 2 + 1, hi)

\* .replace(/\s+/g, ' ')
CollapseWhitespace(s) == ReplaceRuns(s, 1, Len(s))

\* s.substring(from, to), for 0 <= from <= to
Substring(s, from, to) == SubSeq(s, from + 1, Min(to, Len(s)))

\* s.lastIndexOf(ch): the last index of ch in s, or -1
LastIndexOf(s, ch) ==
    IF \E i \in 1..Len(s) : s[i] = ch
    THEN (CHOOSE i \in 1..Len(s) : s[i] = ch /\ \A j \in (i + 1)..Len(s) : s[j] # ch) - 1
    ELSE -1

\* '...'
Dots == <<".", ".", ".">>

\* generateFallbackTitle breaking at a space of index 30 as well
GenerateFallbackTitleFrom30(message) ==
    LET cleaned == CollapseWhitespace(Trim(message))
        truncated == Substring(cleaned, 0, TruncateLength)
        lastSpace == LastIndexOf(truncated, " ")
    IN  IF Len(cleaned) <= MaxTitleLength THEN cleaned
        ELSE IF lastSpace >= MinBreakIndex
             THEN Substring(truncated, 0, lastSpace) \o Dots
             ELSE truncated \o Dots

\* generateFallbackTitle cutting at index 47 whatever the character there
GenerateFallbackTitleHardCut(message) ==
    LET cleaned == CollapseWhitespace(Trim(message))
        truncated == Substring(cleaned, 0, TruncateLength)
    IN  IF Len(cleaned) <= MaxTitleLength THEN cleaned
        ELSE truncated \o Dots

GenerateFallbackTitle(message) ==
    LET cleaned == CollapseWhitespace(Trim(message))
        truncated == Substring(cleaned, 0, TruncateLength)
        lastSpace == LastIndexOf(truncated, " ")
    IN  IF Len(cleaned) <= MaxTitleLength THEN cleaned
        ELSE IF lastSpace > MinBreakIndex
             THEN Substring(truncated, 0, lastSpace) \o Dots
             ELSE truncated \o Dots

\* the call generateFallbackTitle(firstMessage) of generateTitle's catch block
FallbackTitleCall ==
    /\ fallbackOut = <<>>
    /\ fallbackOut' = GenerateFallbackTitle(fallbackIn)
    /\ UNCHANGED <<storeMsgVars, currentChatId, storeSessVars, chatsTitled, authVars,
                   srvVars, now, inflight, used, fallbackIn>>

(***************************************************************************)
(* Initial states and the specification                                    *)
(***************************************************************************)
\* the history the server holds for chat 1: HistLen messages, oldest first
InitialHistory ==
    [i \in 1..HistLen |->
        [sid |-> 1, role |-> IF i % 2 = 1 THEN "user" ELSE "assistant",
         content |-> [k |-> "hist", n |-> i], ts |-> ServerTs(i)]]

\* the server holds one session more than a page of the list
InitialChats == SESSIONS_PAGE_SIZE + 1
InitialNow == HistLen + InitialChats

\* chat 1 has a title and a history and is the most recently updated, chat 2 is
\* new and untouched, the others have a title and no message
InitialSessions ==
    { [id |-> c, title |-> IF c = 2 THEN DefaultTitle ELSE "Old",
       updatedAt |-> InitialNow - c, count |-> IF c = 1 THEN HistLen ELSE 0] :
      c \in 1..InitialChats }

InitStore ==
    /\ messages = <<>>
    /\ currentChatId = NoChat
    /\ chatSessions = <<>>
    /\ isLoading = FALSE
    /\ isPaginating = FALSE
    /\ hasMore = FALSE
    /\ hasMoreSessions = FALSE
    /\ sessionsCursor = NoCursor
    /\ isLoadingSessions = FALSE
    /\ messagesCursor = NoCursor
    /\ cursorFrom = NoChat
    /\ messagesLoadedFromHistory = 0
    /\ messagesSentInSession = 0
    /\ chatsTitled = {}

InitAuth ==
    /\ isAuthenticated = FALSE
    /\ user = NoUser
    /\ hasInitialized = FALSE
    /\ globalInitPromise = 0
    /\ globalInitInProgress = FALSE
    /\ lastInitUserId = NoUser
    /\ effDirty = TRUE
    /\ initN = 0

NoneUsed == [send |-> 0, switch |-> 0, older |-> 0, more |-> 0, newchat |-> 0,
             delete |-> 0, rename |-> 0, login |-> 0, logout |-> 0]

InitServer(populated) ==
    /\ srvSessions = IF populated THEN InitialSessions ELSE {}
    /\ srvHistory = [c \in ChatIds |-> IF populated /\ c = 1 THEN InitialHistory ELSE <<>>]
    /\ srvNextId = IF populated THEN InitialChats + 1 ELSE 1
    /\ titleLog = [c \in ChatIds |-> [gens |-> 0, writes |-> 0]]
    /\ now = InitialNow

Init ==
    /\ InitStore
    /\ InitAuth
    /\ \E populated \in BOOLEAN : InitServer(populated)
    /\ inflight = EmptyBag
    /\ used = NoneUsed
    /\ fallbackIn = <<>>
    /\ fallbackOut = <<>>

\* the steps that leave the auth store and the guard alone
ChatNext ==
    \/ \E c \in ChatIds : SwitchToChat(c)
    \/ \E r \in Awaited("initial"), hm \in BOOLEAN : InitialHistoryResponse(r, hm)
    \/ \E r \in Awaited("initial") : InitialHistoryFailure(r)
    \/ \E r \in Awaited("initial") : InitialHistoryForbidden(r)
    \/ LoadHistorySegment
    \/ \E r \in Awaited("older"), hm \in BOOLEAN : OlderResponse(r, hm)
    \/ \E r \in Awaited("older") : OlderFailure(r)
    \/ \E d \in 0..1 : SendMessage(d)
    \/ \E r \in Awaited("send") : InferenceResponse(r)
    \/ \E r \in Awaited("send") : InferenceFailure(r)
    \/ \E r \in Awaited("gentitle"), fb \in BOOLEAN : TitleGenerated(r, fb)
    \/ \E r \in Awaited("autorename") : AutoRenameResponse(r)
    \/ \E r \in Awaited("autorename") : AutoRenameFailure(r)
    \/ \E r \in Awaited("refresh") : LoadChatSessionsResponse(r)
    \/ \E r \in Awaited("refresh") : LoadChatSessionsFailure(r)
    \/ LoadMoreSessions
    \/ LoadMoreSessionsTwice
    \/ \E r \in Awaited("more"), hm \in BOOLEAN : \E q \in CursorPages : LoadMoreResponse(r, q, hm)
    \/ \E r \in Awaited("more") : LoadMoreFailure(r)
    \/ StartNewChat
    \/ \E r \in Awaited("create") : CreateResponse(r)
    \/ \E r \in Awaited("create") : CreateFailure(r)
    \/ \E c \in ChatIds : DeleteChat(c)
    \/ \E r \in Awaited("delete") : DeleteResponse(r)
    \/ \E r \in Awaited("delete") : DeleteFailure(r)
    \/ \E c \in ChatIds : UpdateChatTitle(c)
    \/ \E r \in Awaited("rename") : RenameResponse(r)
    \/ \E r \in Awaited("rename") : RenameFailure(r)

AuthNext ==
    \/ \E u \in 1..MaxUsers : Login(u)
    \/ Logout
    \/ RunInitEffect
    \/ \E r \in Awaited("clearPromise") : ClearInitPromise(r)
    \/ \E r \in Awaited("initlist") : \E q \in FirstPages : InitListResponse(r, q)
    \/ \E r \in Awaited("initcreate") : InitCreateResponse(r)
    \/ \E r \in Awaited("initlist") \cup Awaited("initcreate") : InitFailure(r)
    \/ \E r \in Awaited("refetchTimer") : RefetchStart(r)
    \/ \E r \in Awaited("refetch") : \E q \in FirstPages : RefetchResponse(r, q)
    \/ \E r \in Awaited("refetch") : RefetchFailure(r)

Next ==
    \/ ChatNext
    \/ AuthNext

Spec == Init /\ [][Next]_vars

(***************************************************************************)
(* The active conversation on its own: the state right after a bootstrap   *)
(* that found the server's sessions (the most recent one active, its first *)
(* history page asked for), and the operations on the timeline and on the  *)
(* pages of the session list.                                              *)
(***************************************************************************)
Bootstrapped ==
    /\ isAuthenticated = TRUE
    /\ user = 1
    /\ hasInitialized = TRUE
    /\ globalInitPromise = 0
    /\ globalInitInProgress = FALSE
    /\ lastInitUserId = 1
    /\ effDirty = FALSE
    /\ initN = 1
    /\ InitServer(TRUE)
    /\ chatSessions = SortSessions(CHOOSE q \in FirstPages : TRUE)
    /\ hasMoreSessions = FirstHasMore
    /\ sessionsCursor = FirstNextCursor
    /\ isLoadingSessions = FALSE
    /\ chatsTitled = TitledIn(chatSessions)
    /\ currentChatId = chatSessions[1].id
    /\ messages = <<>>
    /\ isLoading = TRUE
    /\ isPaginating = FALSE
    /\ hasMore = FALSE
    /\ messagesCursor = NoCursor
    /\ cursorFrom = NoChat
    /\ messagesLoadedFromHistory = 0
    /\ messagesSentInSession = 0
    /\ inflight = SetToBag({[op |-> "initial", chat |-> currentChatId]})
    /\ used = NoneUsed
    /\ fallbackIn = <<>>
    /\ fallbackOut = <<>>

NextChat ==
    \/ \E c \in ChatIds : SwitchToChat(c)
    \/ \E r \in Awaited("initial"), hm \in BOOLEAN : InitialHistoryResponse(r, hm)
    \/ \E r \in Awaited("initial") : InitialHistoryFailure(r)
    \/ LoadHistorySegment
    \/ \E r \in Awaited("older"), hm \in BOOLEAN : OlderResponse(r, hm)
    \/ \E r \in Awaited("older") : OlderFailure(r)
    \/ \E d \in 0..1 : SendMessage(d)
    \/ \E r \in Awaited("send") : InferenceResponse(r)
    \/ \E r \in Awaited("send") : InferenceFailure(r)
    \/ \E r \in Awaited("refresh") : LoadChatSessionsResponse(r)
    \/ \E r \in Awaited("refresh") : LoadChatSessionsFailure(r)
    \/ LoadMoreSessions
    \/ \E r \in Awaited("more"), hm \in BOOLEAN : \E q \in CursorPages : LoadMoreResponse(r, q, hm)
    \/ \E r \in Awaited("more") : LoadMoreFailure(r)

SpecChat == Bootstrapped /\ [][NextChat]_vars

(***************************************************************************)
(* The session list on its own: log in and out, the bootstrap with its     *)
(* guard, and the operations that fetch or refresh the list (a new chat    *)
(* and a rename change the server's sessions and refresh it).  The history *)
(* requests that a change of the active session starts stay in flight.     *)
(***************************************************************************)
NextSess ==
    \/ \E u \in 1..MaxUsers : Login(u)
    \/ Logout
    \/ RunInitEffect
    \/ \E r \in Awaited("clearPromise") : ClearInitPromise(r)
    \/ \E r \in Awaited("initlist") : \E q \in FirstPages : InitListResponse(r, q)
    \/ \E r \in Awaited("initcreate") : InitCreateResponse(r)
    \/ \E r \in Awaited("initlist") \cup Awaited("initcreate") : InitFailure(r)
    \/ \E r \in Awaited("refetchTimer") : RefetchStart(r)
    \/ \E r \in Awaited("refetch") : \E q \in FirstPages : RefetchResponse(r, q)
    \/ \E r \in Awaited("refetch") : RefetchFailure(r)
    \/ \E r \in Awaited("refresh") : LoadChatSessionsResponse(r)
    \/ \E r \in Awaited("refresh") : LoadChatSessionsFailure(r)
    \/ LoadMoreSessions
    \/ LoadMoreSessionsTwice
    \/ \E r \in Awaited("more"), hm \in BOOLEAN : \E q \in CursorPages : LoadMoreResponse(r, q, hm)
    \/ \E r \in Awaited("more") : LoadMoreFailure(r)
    \/ StartNewChat
    \/ \E r \in Awaited("create") : CreateResponse(r)
    \/ \E r \in Awaited("create") : CreateFailure(r)
    \/ \E c \in ChatIds : UpdateChatTitle(c)
    \/ \E r \in Awaited("rename") : RenameResponse(r)
    \/ \E r \in Awaited("rename") : RenameFailure(r)

SpecSess == Init /\ [][NextSess]_vars

(***************************************************************************)
(* Sending and auto-titling on their own: the state after a bootstrap that *)
(* found no session and created the first one (the deferred re-fetch has   *)
(* been applied), and the operations of a send and of the title it starts. *)
(***************************************************************************)
BootstrappedEmpty ==
    /\ isAuthenticated = TRUE
    /\ user = 1
    /\ hasInitialized = TRUE
    /\ globalInitPromise = 0
    /\ globalInitInProgress = FALSE
    /\ lastInitUserId = 1
    /\ effDirty = FALSE
    /\ initN = 1
    /\ srvSessions = {[id |-> 1, title |-> DefaultTitle, updatedAt |-> InitialNow + 1,
                       count |-> 0]}
    /\ srvHistory = [c \in ChatIds |-> <<>>]
    /\ srvNextId = 2
    /\ titleLog = [c \in ChatIds |-> [gens |-> 0, writes |-> 0]]
    /\ now = InitialNow + 1
    /\ chatSessions = <<[id |-> 1, title |-> DefaultTitle, updatedAt |-> InitialNow + 1,
                         count |-> 0]>>
    /\ hasMoreSessions = FALSE
    /\ sessionsCursor = NoCursor
    /\ isLoadingSessions = FALSE
    /\ chatsTitled = {}
    /\ currentChatId = 1
    /\ messages = <<>>
    /\ isLoading = TRUE
    /\ isPaginating = FALSE
    /\ hasMore = FALSE
    /\ messagesCursor = NoCursor
    /\ cursorFrom = NoChat
    /\ messagesLoadedFromHistory = 0
    /\ messagesSentInSession = 0
    /\ inflight = SetToBag({[op |-> "initial", chat |-> 1]})
    /\ used = NoneUsed
    /\ fallbackIn = <<>>
    /\ fallbackOut = <<>>

NextTitle ==
    \/ \E r \in Awaited("initial"), hm \in BOOLEAN : InitialHistoryResponse(r, hm)
    \/ \E r \in Awaited("initial") : InitialHistoryFailure(r)
    \/ \E d \in 0..1 : SendMessage(d)
    \/ \E r \in Awaited("send") : InferenceResponse(r)
    \/ \E r \in Awaited("send") : InferenceFailure(r)
    \/ \E r \in Awaited("gentitle"), fb \in BOOLEAN : TitleGenerated(r, fb)
    \/ \E r \in Awaited("autorename") : AutoRenameResponse(r)
    \/ \E r \in Awaited("autorename") : AutoRenameFailure(r)
    \/ \E r \in Awaited("refresh") : LoadChatSessionsResponse(r)
    \/ \E r \in Awaited("refresh") : LoadChatSessionsFailure(r)

SpecTitle == BootstrappedEmpty /\ [][NextTitle]_vars

(***************************************************************************)
(* Auto-titling against a manual rename: SpecTitle with updateChatTitle.   *)
(***************************************************************************)
NextRetitle ==
    \/ \E r \in Awaited("initial"), hm \in BOOLEAN : InitialHistoryResponse(r, hm)
    \/ \E r \in Awaited("initial") : InitialHistoryFailure(r)
    \/ \E d \in 0..1 : SendMessage(d)
    \/ \E r \in Awaited("send") : InferenceResponse(r)
    \/ \E r \in Awaited("send") : InferenceFailure(r)
    \/ \E r \in Awaited("gentitle"), fb \in BOOLEAN : TitleGenerated(r, fb)
    \/ \E r \in Awaited("autorename") : AutoRenameResponse(r)
    \/ \E r \in Awaited("autorename") : AutoRenameFailure(r)
    \/ \E r \in Awaited("refresh") : LoadChatSessionsResponse(r)
    \/ \E r \in Awaited("refresh") : LoadChatSessionsFailure(r)
    \/ \E c \in ChatIds : UpdateChatTitle(c)
    \/ \E r \in Awaited("rename") : RenameResponse(r)
    \/ \E r \in Awaited("rename") : RenameFailure(r)

SpecRetitle == BootstrappedEmpty /\ [][NextRetitle]_vars

(***************************************************************************)
(* Deleting sessions: the state right after a bootstrap that found the     *)
(* server's sessions, and the operations that delete a session, follow the *)
(* active session (switch and the history fetches) and page the session    *)
(* list.  The server holds MaxChats sessions and creates no further one: a *)
(* create request stays in flight or is rejected.                          *)
(***************************************************************************)
NextDelete ==
    \/ \E c \in ChatIds : SwitchToChat(c)
    \/ \E r \in Awaited("initial"), hm \in BOOLEAN : InitialHistoryResponse(r, hm)
    \/ \E r \in Awaited("initial") : InitialHistoryFailure(r)
    \/ \E r \in Awaited("initial") : InitialHistoryForbidden(r)
    \/ LoadHistorySegment
    \/ \E r \in Awaited("older"), hm \in BOOLEAN : OlderResponse(r, hm)
    \/ \E r \in Awaited("older") : OlderFailure(r)
    \/ \E c \in ChatIds : DeleteChat(c)
    \/ \E r \in Awaited("delete") : DeleteResponse(r)
    \/ \E r \in Awaited("delete") : DeleteFailure(r)
    \/ \E r \in Awaited("create") : CreateFailure(r)
    \/ \E r \in Awaited("refresh") : LoadChatSessionsResponse(r)
    \/ \E r \in Awaited("refresh") : LoadChatSessionsFailure(r)
    \/ LoadMoreSessions
    \/ \E r \in Awaited("more"), hm \in BOOLEAN : \E q \in CursorPages : LoadMoreResponse(r, q, hm)
    \/ \E r \in Awaited("more") : LoadMoreFailure(r)

SpecDelete == Bootstrapped /\ [][NextDelete]_vars

(***************************************************************************)
(* generateFallbackTitle on its own: a message of the family below is      *)
(* given to it once.                                                       *)
(***************************************************************************)
\* n letters, and a run of n whitespace characters
Word(n) == [i \in 1..n |-> "a"]
Gap(n, ch) == [i \in 1..n |-> ch]

FirstWordLengths == {5, 29, 30, 31, 32, 46, 47, 48}
SecondWordLengths == {0, 3, 15, 20, 25}
ThirdWordLengths == {0, 4, 30}
MaxGap == 2
MaxPad == 1

\* up to three words; the gaps and the padding are runs of spaces or tabs
FallbackInputs ==
    { Gap(lead, " ") \o Word(w1) \o Gap(g, ws) \o Word(w2) \o Gap(1, " ") \o Word(w3)
        \o Gap(trail, ws) :
      lead \in 0..MaxPad, trail \in 0..MaxPad, g \in 1..MaxGap, ws \in WhitespaceChars,
      w1 \in FirstWordLengths, w2 \in SecondWordLengths, w3 \in ThirdWordLengths }

InitFallback ==
    /\ InitStore
    /\ InitAuth
    /\ InitServer(FALSE)
    /\ inflight = EmptyBag
    /\ used = NoneUsed
    /\ fallbackIn \in FallbackInputs
    /\ fallbackOut = <<>>

NextFallback == FallbackTitleCall

SpecFallback == InitFallback /\ [][NextFallback]_vars

C10_SessionsSortedDescending ==
    \A i \in 1..(Len(chatSessions) - 1) :
        chatSessions[i].updatedAt >= chatSessions[i + 1].updatedAt

\* the bootstrap requests (list, then create) in flight
BootstrapTasks == {r \in Tasks : r.op \in {"initlist", "initcreate"}}

\* C5: the bootstrap sequence is started once per authenticated user: a trigger
\* that arrives while a bootstrap of the current login is in progress starts no
\* new one, so no two bootstraps of one login are ever in flight together.
C5_OneBootstrapPerLogin ==
    \A r1, r2 \in BootstrapTasks :
        r1.login = r2.login => (r1 = r2 /\ CopiesIn(r1, inflight) = 1)

(***************************************************************************)
(* Properties of the active conversation (SpecChat)                        *)
(***************************************************************************)
StrictlyIncreasing(msgs) ==
    \A i, j \in 1..Len(msgs) : i < j => msgs[i].ts < msgs[j].ts

\* no history request and no send is in flight
TimelineQuiet == \A r \in Tasks : r.op \notin {"initial", "older", "send"}

\* C2: after any sequence of loadOlder calls interleaved with sends on one
\* timeline (the active session is never switched), once every request has been
\* answered the timeline holds no two messages with equal timestamps and is
\* sorted oldest to newest.
C2_TimelineSortedWithoutDuplicates ==
    (used.switch = 0 /\ TimelineQuiet) => StrictlyIncreasing(messages)

\* a step that applies a page shorter than the limit: of the history (the
\* initial fetch or loadOlder) or of the session list (loadMore)
ShortHistoryPageApplied ==
    \E r \in Tasks, hm \in BOOLEAN :
        \/ /\ r.op = "initial"
           /\ Len(HistoryPage(srvHistory[r.chat], NoCursor)) < PAGE_SIZE
           /\ InitialHistoryResponse(r, hm)
        \/ /\ r.op = "older"
           /\ Len(HistoryPage(srvHistory[r.chat], r.cursor)) < PAGE_SIZE
           /\ OlderResponse(r, hm)

ShortSessionPageApplied ==
    \E r \in Awaited("more"), hm \in BOOLEAN : \E q \in CursorPages :
        /\ Len(q) < SESSIONS_PAGE_SIZE
        /\ LoadMoreResponse(r, q, hm)

\* C3: when a pagination fetch returns a page shorter than the requested limit,
\* the flag of that pagination (hasMore, hasMoreSessions) is false once the
\* response has been applied, whatever has_more the server sent.
C3_ShortPageEndsPagination ==
    [][/\ ShortHistoryPageApplied => ~hasMore'
       /\ ShortSessionPageApplied => ~hasMoreSessions']_vars

\* a step that applies a history response, and one that applies the first page
\* or a further page of the session list
HistoryResponseApplied ==
    \E r \in Tasks, hm \in BOOLEAN :
        InitialHistoryResponse(r, hm) \/ OlderResponse(r, hm)

SessionsResponseApplied ==
    \/ \E r \in Awaited("refresh") : LoadChatSessionsResponse(r)
    \/ \E r \in Awaited("more"), hm \in BOOLEAN :
           \E q \in CursorPages : LoadMoreResponse(r, q, hm)

\* a successful send whose count check sets hasMore
SendEnablesPagination ==
    \E r \in Tasks :
        /\ r.op = "send"
        /\ r.loaded + r.sent + 2 > PAGE_SIZE
        /\ ~r.hm
        /\ InferenceResponse(r)

\* C4 as stated: once hasMore is false, pagination stays off until an explicit
\* reset: no send turns hasMore from false to true.
C4_NoSendEnablesPagination ==
    [][(\E r \in Tasks : InferenceResponse(r)) => (hasMore' => hasMore)]_vars

\* C4 as amended: while hasMore (hasMoreSessions) is false, loadOlder (loadMore)
\* issues no request; hasMore becomes true again only when a history response is
\* applied or when a successful send finds more than a page of messages counted
\* and hasMore false in its closure, and hasMoreSessions only when a response
\* with the session list is applied.
C4_PaginationOffUntilResponseOrSend ==
    [][/\ LoadHistorySegment => hasMore
       /\ LoadMoreSessions => hasMoreSessions
       /\ (~hasMore /\ hasMore') => (HistoryResponseApplied \/ SendEnablesPagination)
       /\ (~hasMoreSessions /\ hasMoreSessions') => SessionsResponseApplied]_vars

\* no history page was ever applied to this timeline (the initial fetch failed,
\* no loadOlder, no switch), and yet hasMore is true: a send has set it
C4_SendEnabledPagination ==
    /\ hasMore
    /\ messagesCursor = NoCursor
    /\ messagesLoadedFromHistory = 0
    /\ messagesSentInSession > PAGE_SIZE - 2
    /\ used.switch = 0
    /\ used.older = 0

\* C8: a send invoked while a send is in flight for the same session is a no-op:
\* no two inference requests of one session are ever in flight together, also
\* when an initial history load finishes in between.
C8_OneSendInFlightPerSession ==
    \A r1, r2 \in Tasks :
        (r1.op = "send" /\ r2.op = "send" /\ r1.chat = r2.chat) => r1 = r2

\* a step that applies a history response of a session that is no longer active
StaleHistoryResponseApplied ==
    \E r \in Tasks, hm \in BOOLEAN :
        /\ r.op \in {"initial", "older"}
        /\ r.chat # currentChatId
        /\ InitialHistoryResponse(r, hm) \/ OlderResponse(r, hm)

\* C9: the response of a history fetch for a session that is no longer the
\* active one is discarded: it changes neither the messages, nor the cursor, nor
\* hasMore.
C9_StaleHistoryResponseDiscarded ==
    [][StaleHistoryResponseApplied => UNCHANGED <<messages, messagesCursor, hasMore>>]_vars

(***************************************************************************)
(* Properties of auto-titling (SpecTitle)                                  *)
(***************************************************************************)
\* C6: for every session at most one automatically generated title is ever
\* persisted by the rename operation, also when a second send starts before the
\* first title write and the refresh of the list have completed.
C6_AtMostOneAutoTitlePersisted ==
    \A c \in ChatIds : titleLog[c].writes <= 1

(***************************************************************************)
(* Properties of the fallback title (SpecFallback)                         *)
(***************************************************************************)
\* the single character U+2026
Ellipsis == <<"U+2026">>

\* whether position i of m holds a character of the cleaned text: a character
\* that is no whitespace, or the first whitespace of a run between two words
InCleaned(m, i) ==
    \/ m[i] \notin WhitespaceChars
    \/ /\ i > 1 /\ m[i - 1] \notin WhitespaceChars
       /\ \E j \in (i + 1)..Len(m) : m[j] \notin WhitespaceChars

RECURSIVE CollapsedRange(_, _, _)
CollapsedRange(m, lo, hi) ==
    IF lo > hi THEN <<>>
    ELSE IF lo = hi
         THEN IF ~InCleaned(m, lo) THEN <<>>
              ELSE IF m[lo] \in WhitespaceChars THEN <<" ">> ELSE <<m[lo]>>
    ELSE CollapsedRange(m, lo, (lo + hi) \div 2) \o
         CollapsedRange(m, (lo + hi) \div 2 + 1, hi)

\* m with every whitespace run collapsed to one space, and trimmed
Collapsed(m) == CollapsedRange(m, 1, Len(m))

\* the reference result of the fallback title, with the given ending
ReferenceTitle(m, ending) ==
    LET c == Collapsed(m)
        t == SubSeq(c, 1, 47)
        spaces == {k \in 0..(Len(t) - 1) : t[k + 1] = " "}
        i == IF spaces = {} THEN -1 ELSE CHOOSE k \in spaces : \A l \in spaces : l <= k
    IN  IF Len(c) <= 50 THEN c
        ELSE IF i > 30 THEN SubSeq(t, 1, i) \o ending
        ELSE t \o ending

LastMessageUpdated ==
    \E r \in Awaited("send") : InferenceResponse(r) \/ InferenceFailure(r)

\* C11: a message only goes from loading to sent or to error: the message that
\* updateLastMessage rewrites (content, status, timestamp) when an inference
\* request settles is a loading one, never one that is already sent or error.
C11_SettledMessageNeverRewritten ==
    [][(LastMessageUpdated /\ messages # <<>>) =>
          messages[Len(messages)].status = "loading"]_vars

\* whether s is a suffix of t
IsSuffix(s, t) ==
    /\ Len(s) <= Len(t)
    /\ SubSeq(t, Len(t) - Len(s) + 1, Len(t)) = s

\* C12: a loadOlder that applies a page keeps every message that is in the
\* timeline when the response is applied, in the same order, as a suffix of the
\* new timeline: a message appended by a send while the request was in flight
\* is not dropped.
C12_LoadOlderKeepsTimelineAsSuffix ==
    [][\A r \in Awaited("older"), hm \in BOOLEAN :
          OlderResponse(r, hm) => IsSuffix(messages, messages')]_vars

\* C13: a cursor sent with a history request was stored by the most recent
\* response for the history of the same session since the timeline was reset:
\* whenever loadOlder sends a non-null cursor, the response that stored it was
\* one for the active session.
C13_CursorBelongsToActiveSession ==
    [][(LoadHistorySegment /\ messagesCursor # NoCursor) =>
          cursorFrom = currentChatId]_vars

\* position i of the timeline holds the placeholder the send r appended
HoldsPlaceholder(r, i) == i \in 1..Len(messages) /\ messages[i] = r.ph

\* the step changes the message at position i, and no other, to the content and
\* the status given
OnlyMessageSettled(i, content, status) ==
    /\ Len(messages') = Len(messages)
    /\ messages'[i].content = content
    /\ messages'[i].status = status
    /\ \A j \in 1..Len(messages) : j # i => messages'[j] = messages[j]

\* the step settles the placeholder of the send r and changes no other message;
\* when the timeline no longer holds it (the session was switched meanwhile),
\* the step changes no message
SettlesOwnPlaceholder(r, content, status) ==
    IF \E i \in 1..Len(messages) : HoldsPlaceholder(r, i)
    THEN \E i \in 1..Len(messages) :
             HoldsPlaceholder(r, i) /\ OnlyMessageSettled(i, content, status)
    ELSE messages' = messages

\* C14: when the inference request of a send succeeds, the placeholder of that
\* send, and no other message, gets the returned text and the status sent,
\* whatever happened between the send and the response.
C14_ReplyReplacesOwnPlaceholder ==
    [][\A r \in Awaited("send") :
          InferenceResponse(r) =>
             SettlesOwnPlaceholder(r, [k |-> "reply", n |-> r.n], "sent")]_vars

\* C15: when the inference request of a send fails, the placeholder of that send
\* gets the failure notice and the status error and stays in the timeline, no
\* other message changes, and the request is not issued again.
C15_FailureMarksOwnPlaceholder ==
    [][\A r \in Awaited("send") :
          InferenceFailure(r) =>
             /\ SettlesOwnPlaceholder(r, [k |-> "error", n |-> 0], "error")
             /\ \A t \in BagToSet(inflight') : ~(t.op = "send" /\ t.n = r.n)]_vars

(***************************************************************************)
(* Properties of the requests for the session list (SpecSess)              *)
(***************************************************************************)
\* C16: a rejected session-list request, of loadChatSessions or of
\* loadMoreSessions, changes neither the session list, nor sessionsCursor, nor
\* hasMoreSessions, nor the titled-set; after a rejected loadMore the in-flight
\* flag is down again, so that the same call issues a new request.
C16_RejectedListRequestChangesNothing ==
    [][/\ (\E r \in Awaited("refresh") : LoadChatSessionsFailure(r)) =>
             UNCHANGED <<chatSessions, sessionsCursor, hasMoreSessions, chatsTitled>>
       /\ (\E r \in Awaited("more") : LoadMoreFailure(r)) =>
             /\ UNCHANGED <<chatSessions, sessionsCursor, hasMoreSessions, chatsTitled>>
             /\ ~isLoadingSessions']_vars

\* a loadMore was rejected: one was invoked and none is in flight, yet the list
\* is still the first page with its cursor, and nothing else refreshed the list
C16_LoadMoreWasRejected ==
    /\ used.more > 0
    /\ Awaited("more") = {}
    /\ used.login = 1 /\ used.newchat = 0 /\ used.rename = 0
    /\ sessionsCursor = FirstNextCursor
    /\ sessionsCursor # NoCursor
    /\ hasMoreSessions
    /\ ~isLoadingSessions
    /\ Len(chatSessions) = SESSIONS_PAGE_SIZE

\* C17: loadMore issues no request while a session-list load is in flight, when
\* hasMoreSessions is false or when no cursor is stored, so that at most one
\* loadMore request is in flight at any time, also when loadMore is invoked
\* twice before the caller has seen the first call's isLoadingSessions.
C17_OneLoadMoreInFlight ==
    /\ Cardinality(Awaited("more")) <= 1
    /\ \A r \in Awaited("more") : CopiesIn(r, inflight) = 1

(***************************************************************************)
(* Properties of the requests for older history (SpecChat)                 *)
(***************************************************************************)
\* C18: loadOlder issues a request only when hasMore is true, no loadOlder
\* request is in flight, and neither the initial load of the active session nor
\* a send on it is pending.
C18_LoadOlderExcludesPendingLoads ==
    [][LoadHistorySegment =>
          /\ hasMore
          /\ Awaited("older") = {}
          /\ \A r \in Awaited("initial") \cup Awaited("send") :
                 r.chat # currentChatId]_vars

(***************************************************************************)
(* Properties of late responses for the session list (SpecSess)            *)
(***************************************************************************)
\* whether s is a prefix of t
IsPrefix(s, t) ==
    /\ Len(s) <= Len(t)
    /\ SubSeq(t, 1, Len(s)) = s

\* a step that applies a loadMore response, the user still logged in, after the
\* list the request was made for has been replaced: appends keep that list as a
\* prefix, a refresh (setChatSessions) does not
StaleLoadMoreResponseApplied ==
    \E r \in Awaited("more"), hm \in BOOLEAN : \E q \in CursorPages :
        /\ isAuthenticated
        /\ ~IsPrefix(r.base, chatSessions)
        /\ LoadMoreResponse(r, q, hm)

\* C19: a loadMore response that arrives after a refresh has replaced the
\* session list is not applied: it is not appended to the new list and does not
\* overwrite the list's cursor or hasMoreSessions.
C19_StaleLoadMoreResponseDiscarded ==
    [][StaleLoadMoreResponseApplied =>
          UNCHANGED <<chatSessions, sessionsCursor, hasMoreSessions>>]_vars

(***************************************************************************)
(* Properties of the auto-title gate (SpecTitle)                           *)
(***************************************************************************)
\* the step starts a title generation for session c
TitleGenerationStarted(c) == titleLog'[c].gens = titleLog[c].gens + 1

\* the session list of the render the send r was invoked in holds the session
\* with the default title and no message
UntouchedInSnapshot(r) ==
    /\ r.cur.id = r.chat
    /\ r.cur.title = DefaultTitle
    /\ r.cur.count = 0

\* C20 as stated: a successful send starts title generation exactly when, in the
\* snapshot the send was invoked with, the session is not in the titled-set, has
\* the default title and has no message.
C20_TitleStartedPerSnapshot ==
    [][\A r \in Awaited("send") :
          InferenceResponse(r) =>
             (TitleGenerationStarted(r.chat) <=> (~r.titled /\ UntouchedInSnapshot(r)))]_vars

\* C20 as amended: a successful send starts title generation exactly when the
\* session is not in the titled-set at the moment the response arrives, and the
\* session list of the snapshot the send was invoked with holds the session with
\* the default title and no message; a session missing from that list is never
\* auto-titled.
C20_TitleStartedPerLiveTitledSet ==
    [][\A r \in Awaited("send") :
          InferenceResponse(r) =>
             (TitleGenerationStarted(r.chat) <=>
                 (r.chat \notin chatsTitled /\ UntouchedInSnapshot(r)))]_vars

\* two sends have settled on the first session: one of them started the title
\* generation, whose title was persisted, and the other started none
C20_SecondSendStartedNoTitle ==
    /\ titleLog[1].gens = 1
    /\ 1 \in chatsTitled
    /\ used.send >= 2
    /\ Awaited("send") = {}
    /\ messagesSentInSession >= 4

(***************************************************************************)
(* Properties of the title persist (SpecTitle)                             *)
(***************************************************************************)
\* C21: auto-titling adds a session to the titled-set only after the title
\* write for it has succeeded: a step that adds a session persists an auto title
\* for it, and a rejected rename request leaves the titled-set as it is, so that
\* a later eligible send may start titling again.
C21_TitledOnlyAfterSuccessfulWrite ==
    [][/\ \A c \in ChatIds :
             (c \notin chatsTitled /\ c \in chatsTitled') =>
                 /\ titleLog'[c].writes = titleLog[c].writes + 1
                 /\ \E r \in Awaited("autorename") : r.chat = c /\ AutoRenameResponse(r)
       /\ \A r \in Awaited("autorename") :
             AutoRenameFailure(r) => chatsTitled' = chatsTitled]_vars

\* the rename request of a first title generation was rejected, the session
\* stayed out of the titled-set, and a later send started a second generation
C21_TitlingAttemptedAgain ==
    /\ titleLog[1].gens = 2
    /\ titleLog[1].writes = 0
    /\ 1 \notin chatsTitled
    /\ Awaited("autorename") = {}
    /\ Cardinality(Awaited("gentitle")) = 1

(***************************************************************************)
(* Properties of deleting sessions (SpecDelete)                            *)
(***************************************************************************)
\* a step that synchronizes the session list with a page of the server
SessionListSynchronized ==
    \/ \E r \in Awaited("initlist") : \E q \in FirstPages : InitListResponse(r, q)
    \/ \E r \in Awaited("refetch") : \E q \in FirstPages : RefetchResponse(r, q)
    \/ \E r \in Awaited("refresh") : LoadChatSessionsResponse(r)
    \/ \E r \in Awaited("more"), hm \in BOOLEAN :
           \E q \in CursorPages : LoadMoreResponse(r, q, hm)

\* C22: after every synchronization of the session list (bootstrap, refresh,
\* loadMore, deferred re-fetch) every session of the store's list whose title
\* is not 'New Chat' is a member of the titled-set.
C22_TitledSessionsAreInTitledSet ==
    [][SessionListSynchronized =>
          \A i \in 1..Len(chatSessions') :
              chatSessions'[i].title # DefaultTitle =>
                  chatSessions'[i].id \in chatsTitled']_vars

(***************************************************************************)
(* Properties of auto-titling against a manual rename (SpecRetitle)        *)
(***************************************************************************)
\* C23: once a session is in the titled-set (for example after a successful
\* manual rename) no auto-title rename request is issued for it: a title
\* generation started before the rename issues no request when it completes.
C23_NoAutoRenameOfTitledSession ==
    [][\A r \in Awaited("gentitle"), fb \in BOOLEAN :
          TitleGenerated(r, fb) => r.chat \notin chatsTitled]_vars

(***************************************************************************)
(* Properties of the arguments of title generation (SpecTitle)             *)
(***************************************************************************)
\* C24: when title generation runs after a send with prompt p and reply r, the
\* suggest-title request carries p as first_message and r as
\* assistant_message, and a fallback title is computed from p, never from r.
C24_TitleRequestCarriesPromptAndReply ==
    /\ \A t \in Awaited("gentitle") :
          /\ t.req.first_message = PromptOf(t.n)
          /\ t.req.assistant_message = ReplyOf(t.n)
    /\ \A t \in Awaited("autorename") :
          t.fallback => t.titleOf = PromptOf(t.n)

(***************************************************************************)
(* Properties of the bootstrap and its guard (SpecSess)                    *)
(***************************************************************************)
\* a step in which a bootstrap settles with a failure, and one in which it
\* settles at all
BootstrapFailed == \E r \in BootstrapTasks : InitFailure(r)

BootstrapSettled ==
    \/ BootstrapFailed
    \/ \E r \in Awaited("initcreate") : InitCreateResponse(r)
    \/ \E r \in Awaited("initlist") : \E q \in FirstPages :
           Len(q) > 0 /\ InitListResponse(r, q)

\* a run of the initialization effect in this state starts a bootstrap
TriggerStartsBootstrap ==
    InitEffectRun([inProgress |-> globalInitInProgress, lastUser |-> lastInitUserId,
                   promise |-> globalInitPromise, hasInit |-> hasInitialized,
                   waiters |-> 0, started |-> 0], hasInitialized).started = 1

\* C25: when a bootstrap settles, inProgress is false; when it settled with a
\* failure, lastUserId is null, and the next trigger for the user who is logged
\* in starts a new bootstrap instead of being treated as already initialized.
C25_FailedBootstrapCanBeRetried ==
    [][/\ BootstrapSettled => ~globalInitInProgress'
       /\ BootstrapFailed =>
             /\ lastInitUserId' = NoUser
             /\ (isAuthenticated /\ user # NoUser) => TriggerStartsBootstrap']_vars

\* the first bootstrap of a login failed and the effect started a second one
C25_BootstrapRetried ==
    /\ used.login = 1
    /\ used.logout = 0
    /\ initN = 2
    /\ globalInitInProgress
    /\ lastInitUserId = user
    /\ Cardinality(BootstrapTasks) = 1

\* C26: on logout the guard becomes {inProgress = false, lastUserId = null,
\* pendingPromise = null}, hasInitialized becomes false and the chat store
\* equals its initial value; a login therefore finds a guard with which the
\* trigger runs the bootstrap again.
C26_LogoutResetsGuardAndStore ==
    [][/\ Logout =>
             /\ ~globalInitInProgress'
             /\ lastInitUserId' = NoUser
             /\ globalInitPromise' = 0
             /\ ~hasInitialized'
             /\ InitStore'
       /\ (\E u \in 1..MaxUsers : Login(u)) => TriggerStartsBootstrap']_vars

\* a user logged in, out and in again, and the second login's bootstrap runs
C26_BootstrapRunsAgainAfterLogout ==
    /\ used.login = 2
    /\ used.logout = 1
    /\ isAuthenticated
    /\ initN = 2
    /\ globalInitInProgress
    /\ \E r \in Awaited("initlist") : r.login = 2

\* the ids of the most recently updated sessions of a page
MostRecentIds(q) ==
    {q[i].id : i \in {j \in 1..Len(q) :
                        \A k \in 1..Len(q) : q[j].updatedAt >= q[k].updatedAt}}

\* C27: after a bootstrap that completes successfully the active session id is
\* non-null: the id of the most recently updated session of the first page when
\* the page is non-empty, otherwise the id of exactly one newly created session
\* with the default title, after which the session list is fetched again.
C27_BootstrapSelectsActiveSession ==
    [][/\ \A r \in Awaited("initlist"), q \in FirstPages :
             (Len(q) > 0 /\ InitListResponse(r, q)) =>
                 /\ currentChatId' # NoChat
                 /\ currentChatId' \in MostRecentIds(q)
                 /\ srvSessions' = srvSessions
       /\ \A r \in Awaited("initcreate") :
             InitCreateResponse(r) =>
                 /\ currentChatId' # NoChat
                 /\ currentChatId' \notin SrvIds
                 /\ srvSessions' = srvSessions \cup
                       {[id |-> currentChatId', title |-> DefaultTitle,
                         updatedAt |-> now', count |-> 0]}
                 /\ CopiesIn([op |-> "refetchTimer"], inflight') =
                       CopiesIn([op |-> "refetchTimer"], inflight) + 1]_vars

\* a bootstrap found no session, created the first one and made it active; the
\* deferred re-fetch of the list is pending
C27_FirstSessionCreatedAndActive ==
    /\ used.login = 1
    /\ initN = 1
    /\ ~globalInitInProgress
    /\ currentChatId = 1
    /\ SrvIds = {1}
    /\ SrvSession(1).title = DefaultTitle
    /\ [op |-> "refetchTimer"] \in Tasks

(***************************************************************************)
(* Properties of a rejected history fetch (SpecDelete)                     *)
(***************************************************************************)
\* the create-session requests in flight
CreateRequests(b) ==
    CopiesIn([op |-> "create", k |-> "user"], b) +
    CopiesIn([op |-> "create", k |-> "initial403"], b) +
    CopiesIn([op |-> "create", k |-> "delete"], b)

\* a step in which the history fetch r (the initial one or loadOlder's) is
\* rejected; the server answers 403 for a session it does not hold for the user
HistoryFetchRejected(r) ==
    \/ r.op = "initial" /\ (InitialHistoryFailure(r) \/ InitialHistoryForbidden(r))
    \/ r.op = "older" /\ OlderFailure(r)

\* C28: a 403 rejection of a history fetch for the active session leads to
\* exactly one create-session request and, when that succeeds, to the new
\* session becoming active; any other rejection of a history fetch creates no
\* session and leaves the active session id unchanged.
C28_ForbiddenHistoryStartsNewSession ==
    [][/\ \A r \in Awaited("initial") \cup Awaited("older") :
             HistoryFetchRejected(r) =>
                 IF r.chat \notin SrvIds
                 THEN r.chat = currentChatId =>
                          CreateRequests(inflight') = CreateRequests(inflight) + 1
                 ELSE /\ CreateRequests(inflight') = CreateRequests(inflight)
                      /\ currentChatId' = currentChatId
                      /\ srvSessions' = srvSessions
       /\ \A r \in Awaited("create") :
             (r.k = "initial403" /\ CreateResponse(r)) =>
                 /\ currentChatId' = srvNextId
                 /\ currentChatId' \in {x.id : x \in srvSessions'}]_vars

(***************************************************************************)
(* Properties of a change of the active session (SpecChat)                 *)
(***************************************************************************)
\* C29: whenever the active session id changes to a new non-null id, the
\* timeline becomes empty, hasMore false, messagesCursor null and both message
\* counters zero before any history response for the new session is applied,
\* and the first history request for the new session, issued with the change,
\* carries no cursor.
C29_ActiveSessionChangeResetsTimeline ==
    [][(currentChatId' # currentChatId /\ currentChatId' # NoChat) =>
          /\ messages' = <<>>
          /\ ~hasMore'
          /\ messagesCursor' = NoCursor
          /\ messagesLoadedFromHistory' = 0
          /\ messagesSentInSession' = 0
          /\ CopiesIn([op |-> "initial", chat |-> currentChatId'], inflight') =
                CopiesIn([op |-> "initial", chat |-> currentChatId'], inflight) + 1
          /\ \A r \in Awaited("older") : CopiesIn(r, inflight') = CopiesIn(r, inflight)
          /\ \A t \in BagToSet(inflight') \ BagToSet(inflight) :
                t.op \in {"initial", "older"} =>
                    t = [op |-> "initial", chat |-> currentChatId']]_vars

\* a send was completed on the first session, then the user switched to the
\* second one: the counters are zero again and its first page is asked for
C29_SwitchedAfterSend ==
    /\ currentChatId = 2
    /\ used.switch = 1
    /\ used.send = 1
    /\ Awaited("send") = {}
    /\ Len(srvHistory[1]) = HistLen + 2
    /\ messages = <<>>
    /\ messagesSentInSession = 0
    /\ messagesLoadedFromHistory = 0
    /\ [op |-> "initial", chat |-> 2] \in Tasks

(***************************************************************************)
(* Properties of the pagination bookkeeping of a send (SpecChat)           *)
(***************************************************************************)
\* C30: after a successful send hasMore is true whenever the messages loaded
\* from history plus the messages sent in this session, the two of this send
\* included, exceed one page; the counts are the current ones, not those of
\* the state the send was invoked with.  Stated for a timeline whose session
\* was never switched, where every response belongs to the active session.
C30_SendEnablesPaginationOnCurrentCounts ==
    [][\A r \in Awaited("send") :
          (used.switch = 0 /\ InferenceResponse(r)) =>
              (messagesLoadedFromHistory' + messagesSentInSession' > PAGE_SIZE
                   => hasMore')]_vars

(***************************************************************************)
(* Properties of a send across a change of the active session (SpecChat)   *)
(***************************************************************************)
\* a step in which the send r, issued in a session that is no longer the active
\* one, settles with a reply or with a failure notice
StaleSendSettled(r) ==
    /\ r.chat # currentChatId
    /\ InferenceResponse(r) \/ InferenceFailure(r)

\* C31: if the active session changes from A to B while the inference request
\* of a send issued in A is in flight, the arriving reply or failure notice is
\* not written into any message of B's timeline and changes neither B's message
\* counters nor its hasMore flag.
C31_StaleReplyLeavesNewTimelineAlone ==
    [][\A r \in Awaited("send") :
          StaleSendSettled(r) =>
              UNCHANGED <<messages, messagesLoadedFromHistory,
                          messagesSentInSession, hasMore>>]_vars

(***************************************************************************)
(* Properties of the loading flag and the placeholder (SpecChat)           *)
(***************************************************************************)
\* the positions of the timeline that hold a message with status loading
LoadingPositions == {i \in 1..Len(messages) : messages[i].status = "loading"}

\* C32: in every reachable state the timeline contains at most one message
\* with status loading, and if it contains one, that message is the last
\* element and has role assistant.
C32_OneLoadingMessageAtTheEnd ==
    /\ Cardinality(LoadingPositions) <= 1
    /\ \A i \in LoadingPositions :
          i = Len(messages) /\ messages[i].role = "assistant"

\* C33: isLoading is true in every state in which an inference request is in
\* flight: no operation sharing the flag sets it to false while a send is
\* waiting for its response.
C33_LoadingWhileSendInFlight ==
    Awaited("send") # {} => isLoading

\* C34: loadOlder never issues a history request with cursor = null: whenever
\* hasMore is true for the active session messagesCursor is non-null, also after
\* hasMore was set to true by the count check of the send pipeline.  Stated for
\* the step of the send pipeline on a timeline whose session was never switched:
\* a successful send keeps "hasMore implies a cursor".
C34_SendKeepsCursorWithHasMore ==
    [][\A r \in Awaited("send") :
          (/\ used.switch = 0
           /\ hasMore => messagesCursor # NoCursor
           /\ InferenceResponse(r)) =>
              (hasMore' => messagesCursor' # NoCursor)]_vars

(***************************************************************************)
(* Properties of logout and of the guard's life cycle (SpecSess)           *)
(***************************************************************************)
\* a step that completes a request of a bootstrap: the first page or the
\* created session of initializeChats, or the deferred re-fetch
BootstrapRequestCompleted ==
    \/ \E r \in Awaited("initlist") : \E q \in FirstPages : InitListResponse(r, q)
    \/ \E r \in Awaited("initcreate") : InitCreateResponse(r)
    \/ \E r \in Awaited("refetch") : \E q \in FirstPages : RefetchResponse(r, q)

\* C35: after logout has reset the stores no completion of an operation that
\* was started before the logout writes sessions, messages, cursors, an active
\* session id or titled-set entries into the stores.  Stated for the bootstrap
\* and its deferred re-fetch, which only start while a user is logged in: their
\* completion while nobody is logged in writes none of these.
C35_StaleBootstrapWritesNothing ==
    [][(~isAuthenticated /\ BootstrapRequestCompleted) =>
          UNCHANGED <<chatSessions, messages, sessionsCursor, messagesCursor,
                      currentChatId, chatsTitled>>]_vars

\* C36: whenever the guard's inProgress flag is true its pendingPromise is
\* non-null: the delayed clearing scheduled when one bootstrap settles never
\* clears the pending promise of a later bootstrap.
C36_PendingPromiseWhileInProgress ==
    globalInitInProgress => globalInitPromise # 0

\* C37: a failed bootstrap does not re-trigger itself: when no activation
\* signal is pending, the failure leaves no run of the initialization effect
\* pending that starts another bootstrap.
C37_FailedBootstrapStartsNoOther ==
    [][(BootstrapFailed /\ ~effDirty) =>
          ~(effDirty' /\ TriggerStartsBootstrap')]_vars

(***************************************************************************)
(* Properties of deleteChat (SpecDelete)                                   *)
(***************************************************************************)
\* C38: after deleteChat(id) succeeds for the session that is active when the
\* delete completes, the active session id differs from id and is the first
\* other session of the current list, or a new session is being created when
\* there is none; deleting a session that is not active leaves the active id
\* unchanged, and a rejected delete request changes neither the active id nor
\* the titled-set.
C38_DeleteMovesOffDeletedSession ==
    [][\A r \in Awaited("delete") :
          /\ DeleteResponse(r) =>
                IF r.chat # currentChatId THEN currentChatId' = currentChatId
                ELSE IF Remaining(chatSessions, r.chat) # <<>>
                     THEN currentChatId' = Remaining(chatSessions, r.chat)[1].id
                     ELSE CreateRequests(inflight') = CreateRequests(inflight) + 1
          /\ DeleteFailure(r) => UNCHANGED <<currentChatId, chatsTitled>>]_vars


(***************************************************************************)
(* Properties of the pagination flags (SpecChatFair)                       *)
(***************************************************************************)
\* the request of a loadHistorySegment settles: a page comes back or it is rejected
SettleOlder ==
    \E r \in Awaited("older") : (\E hm \in BOOLEAN : OlderResponse(r, hm)) \/ OlderFailure(r)

\* the request of a loadMoreSessions settles
SettleMore ==
    \E r \in Awaited("more") :
        \/ \E hm \in BOOLEAN : \E q \in CursorPages : LoadMoreResponse(r, q, hm)
        \/ LoadMoreFailure(r)

\* SpecChat where every request of the two pagers settles in the end
SpecChatFair == SpecChat /\ WF_vars(SettleOlder) /\ WF_vars(SettleMore)

\* C39: a pager's flag (isPaginating, isLoadingSessions) is set only while a request
\* of that pager is in flight, every way the request can settle (a page with new
\* entries, an empty page, a page of duplicates, a rejection) sets the flag to
\* false, and so a set flag is always cleared in the end
C39_PagerFlagClearedWhenRequestSettles ==
    /\ [](isPaginating => Awaited("older") # {})
    /\ [](isLoadingSessions => Awaited("more") # {})
    /\ [][SettleOlder => ~isPaginating']_vars
    /\ [][SettleMore => ~isLoadingSessions']_vars
    /\ (isPaginating ~> ~isPaginating)
    /\ (isLoadingSessions ~> ~isLoadingSessions)

\* both pagers have issued a request, the requests have settled and both flags are false
C39_BothPagersSettled ==
    /\ used.older > 0 /\ Awaited("older") = {} /\ ~isPaginating
    /\ used.more > 0 /\ Awaited("more") = {} /\ ~isLoadingSessions


(***************************************************************************)
(* Properties of the shape of the fallback title (SpecFallback)            *)
(***************************************************************************)
\* the fallback title without the three full stops a shortened title ends with
TitleBody ==
    IF Len(Collapsed(fallbackIn)) > MaxTitleLength
    THEN SubSeq(fallbackOut, 1, Len(fallbackOut) - Len(Dots))
    ELSE fallbackOut

\* C40: the fallback title has at most 50 characters, what precedes the appended
\* full stops neither starts nor ends with a whitespace character, and no two
\* neighbouring characters of the title are both whitespace
C40_FallbackTitleShortAndClean ==
    fallbackOut # <<>> =>
        /\ Len(fallbackOut) <= MaxTitleLength
        /\ TitleBody # <<>>
        /\ TitleBody[1] \notin WhitespaceChars
        /\ TitleBody[Len(TitleBody)] \notin WhitespaceChars
        /\ \A i \in 1..(Len(fallbackOut) - 1) :
               ~(fallbackOut[i] \in WhitespaceChars /\ fallbackOut[i + 1] \in WhitespaceChars)

\* a padded message with a run of two tabs was shortened, and the character of
\* index 46 of the cleaned message, the last one the cut keeps, is a space
C40_CutFallsOnSpace ==
    /\ fallbackOut # <<>>
    /\ Len(Collapsed(fallbackIn)) > MaxTitleLength
    /\ Collapsed(fallbackIn)[TruncateLength] = " "
    /\ fallbackIn[1] \in WhitespaceChars
    /\ fallbackIn[Len(fallbackIn)] \in WhitespaceChars
    /\ \E i \in 1..(Len(fallbackIn) - 1) : fallbackIn[i] = "\t" /\ fallbackIn[i + 1] = "\t"

====
